---- MODULE Spec2Model ----
(***************************************************************************)
(* Model of the repair data path of the satellite:                         *)
(*   satellite/repair/repairer/ec.go  (ECRepairer.Get, ECRepairer.Repair,  *)
(*   downloadAndVerifyPiece, verifyPieceHash, verifyOrderLimitSignature,   *)
(*   putPiece, nonNilCount, unique).                                       *)
(*                                                                         *)
(* Get is modelled as the dispatch loop of the caller's goroutine plus one *)
(* process per launched worker closure.  Code that runs between cond.L.Lock*)
(* and the next Unlock/Wait is one atomic step; the deferred Unlock and the*)
(* deferred Signal are distinct, so Signal is a step of its own.           *)
(***************************************************************************)
EXTENDS Integers, Sequences, FiniteSets, TLC

\* ------------------------------------------------------------------ bounds
TotalCount == 3      \* es.TotalCount() of the schemes explored
MaxRequired == 2     \* largest es.RequiredCount() explored
OrdersTotal == 4     \* redundancy.TotalCount() of the segments under repair
MaxRetriesBound == 2 \* largest reporter.maxRetries explored
AuditNodes == 2      \* node ids that a report can name
maxReverifyCount == 1    \* reporter.maxReverifyCount

\* ------------------------------------------------------------------ values
Nil == [nil |-> TRUE]

SatelliteSignee == "satellite"      \* ec.satelliteSignee
UplinkKey == "uplink"               \* the piece public key of the segment

\* A Go error is the set of errs classes found in its chain plus its first
\* message; NoErr is the nil error.  errs.Class.Has walks wrapped and
\* combined errors, so Has is membership.
NoErr == [classes |-> {}, msg |-> ""]
Err(class, msg) == [classes |-> {class}, msg |-> msg]
\* Mutant: the error is returned without its class.
WrapDropsClass(class, err) == err
Wrap(class, err) == [classes |-> err.classes \cup {class}, msg |-> err.msg]
Combine(a, b) ==
    IF a = NoErr THEN b
    ELSE IF b = NoErr THEN a
    ELSE [classes |-> a.classes \cup b.classes, msg |-> a.msg]
Has(class, err) == class \in err.classes

RepairerError == "repairer"                        \* repairer.Error
ErrPieceHashVerifyFailed == "piece hashes don't match"
PiecestoreError == "piecestore"                    \* piecestore.Error

\* pkcrypto.NewHash().Sum over the downloaded bytes.
HashOf(data) == <<"sha256", data>>

\* pb.OrderLimit for piece number i, signed by `signer`.
OrderLimit(i, signer) ==
    [StorageNodeId |-> i, PieceId |-> i, UplinkPublicKey |-> UplinkKey,
     SatelliteSignature |-> [signer |-> signer, StorageNodeId |-> i, PieceId |-> i]]

\* pb.AddressedOrderLimit handed to Get for slot i.
AddressedLimit(i) == [Limit |-> OrderLimit(i, SatelliteSignee), Address |-> i]

\* pb.PieceHash over `data` for piece `pid`, signed with key `key`.
PieceHash(pid, data, key) ==
    [PieceId |-> pid, Hash |-> HashOf(data),
     Signature |-> [signer |-> key, PieceId |-> pid, Hash |-> HashOf(data)]]

\* ------------------------------------------------------------------ state
VARIABLES
    es,               \* the erasure scheme: RequiredCount (k), TotalCount (n)
    limits,           \* Get's limits argument: Nil or an AddressedOrderLimit per slot
    node,             \* behaviour of the storage node behind each slot
    cachedIPsAndPorts, \* per slot, what Get's map holds for the limit's node
    ctxErr,           \* the caller's context is cancelled
    gpc,              \* position of Get's own goroutine
    idx,              \* currentLimitIndex of the dispatch loop
    successfulPieces, inProgress, unusedLimits,
    pieceReaders,     \* map[int]io.ReadCloser
    failedPieces,     \* []*pb.RemotePiece
    errlist,          \* errs.Group, as the set of its entries
    w,                \* the worker closures, per slot
    getRet            \* what Get returned

getVars == <<es, limits, node, cachedIPsAndPorts, ctxErr, gpc, idx, successfulPieces, inProgress,
             unusedLimits, pieceReaders, failedPieces, errlist, w, getRet>>

VARIABLES
    rs,               \* Repair's redundancy strategy: TotalCount
    repairLimits,     \* Repair's limits argument
    successfulNeeded, \* Repair's threshold argument
    repairCtx,        \* the caller's context of Repair: "live", or why it is done
    psCtx,            \* the upload context derived from it, likewise
    encoded,          \* eestream.EncodeReader2 has been called
    timer,            \* the time.AfterFunc timer
    rpc,              \* position of Repair's own goroutine
    task,             \* the upload goroutines, per slot
    infos,            \* the results channel
    received,         \* iterations of the draining loop so far
    successfulCount, failureCount, cancellationCount,
    successfulNodes, successfulHashes,
    repairRet         \* what Repair returned

repairVars == <<rs, repairLimits, successfulNeeded, repairCtx, psCtx, encoded, timer,
                rpc, task, infos, received, successfulCount, failureCount,
                cancellationCount, successfulNodes, successfulHashes, repairRet>>

VARIABLES
    vpc,              \* which function is called directly: "verify", "download", or "idle"
    vLimit, vHash, vExpected,   \* the arguments of verifyPieceHash
    dResp,            \* what the node delivers to downloadAndVerifyPiece
    vResults          \* the results of the calls so far

verifyVars == <<vpc, vLimit, vHash, vExpected, dResp, vResults>>

VARIABLES
    redundancy,       \* CreatePutRepairOrderLimits: TotalCount, OptimalThreshold
    optimalThresholdMultiplier,   \* as a fraction <<numerator, denominator>>
    getOrderLimits,   \* Nil or a get limit per piece number
    newNodes,         \* the ids of the selected nodes
    putLimits,        \* the local slice limits
    pieceNum,         \* zero-based, as in the code
    totalPiecesToRepair,
    nextNode,         \* position of the range loop in newNodes
    opc,              \* position of CreatePutRepairOrderLimits
    ordersRet         \* what it returned

ordersVars == <<redundancy, optimalThresholdMultiplier, getOrderLimits, newNodes,
                putLimits, pieceNum, totalPiecesToRepair, nextNode, opc, ordersRet>>

VARIABLES
    maxRetries,       \* reporter.maxRetries
    successes, fails, unknowns, offlines,   \* RecordAudits' lists of node ids
    pendingAudits,    \* and of pending audits
    tries,
    auditErrlist,     \* errlist: the categories that added an error in the pass
    applied,          \* per category and entry, how often its recording succeeded
    apc,              \* position of RecordAudits
    auditRet          \* what it returned

auditVars == <<maxRetries, successes, fails, unknowns, offlines, pendingAudits,
               tries, auditErrlist, applied, apc, auditRet>>

vars == <<getVars, repairVars, verifyVars, ordersVars, auditVars>>

\* ------------------------------------------------------------------ piece verifier

\* signing.VerifyUplinkPieceHashSignature: the signature is the uplink's over
\* exactly this piece id and hash.
VerifyUplinkPieceHashSignature(publicKey, hash) ==
    /\ hash.Signature.signer = publicKey
    /\ hash.Signature.PieceId = hash.PieceId
    /\ hash.Signature.Hash = hash.Hash

\* signing.VerifyOrderLimitSignature: the signature is the satellite's over
\* exactly this limit.
VerifyOrderLimitSignature(satellite, limit) ==
    /\ limit.SatelliteSignature.signer = satellite
    /\ limit.SatelliteSignature.StorageNodeId = limit.StorageNodeId
    /\ limit.SatelliteSignature.PieceId = limit.PieceId

\* Mutant: the hash value is compared before the piece id.
verifyPieceHashHashFirst(limit, hash, expectedHash) ==
    IF limit = Nil \/ hash = Nil \/ Len(expectedHash) = 0
    THEN Err(RepairerError, "invalid arguments")
    ELSE IF hash.Hash # expectedHash
    THEN Err(RepairerError, "hash from storage node does not match calculated hash")
    ELSE IF limit.PieceId # hash.PieceId
    THEN Err(RepairerError, "piece id changed")
    ELSE IF ~VerifyUplinkPieceHashSignature(limit.UplinkPublicKey, hash)
    THEN Err(RepairerError, "invalid piece hash signature")
    ELSE NoErr
\* ec.go:282-300
verifyPieceHash(limit, hash, expectedHash) ==
    IF limit = Nil \/ hash = Nil \/ Len(expectedHash) = 0
    THEN Err(RepairerError, "invalid arguments")
    ELSE IF limit.PieceId # hash.PieceId
    THEN Err(RepairerError, "piece id changed")
    ELSE IF hash.Hash # expectedHash
    THEN Err(RepairerError, "hash from storage node does not match calculated hash")
    ELSE IF ~VerifyUplinkPieceHashSignature(limit.UplinkPublicKey, hash)
    THEN Err(RepairerError, "invalid piece hash signature")
    ELSE NoErr

\* Mutant: the satellite's signature on the echoed limit is not checked.
verifyOrderLimitSignatureSkipped(satellite, limit) == NoErr
\* Mutant: a bad signature on the echoed limit is reported in the class of
\* failed piece-hash verifications.
verifyOrderLimitSignatureAsHashFailure(satellite, limit) ==
    IF ~VerifyOrderLimitSignature(satellite, limit)
    THEN Err(ErrPieceHashVerifyFailed, "invalid order limit signature")
    ELSE NoErr
verifyOrderLimitSignature(satellite, limit) ==
    IF ~VerifyOrderLimitSignature(satellite, limit)
    THEN Err(RepairerError, "invalid order limit signature")
    ELSE NoErr

\* Mutant: the piece hash is verified before the order limit's signature.
downloadChecksHashFirst(resp) ==
    IF resp.transport # "ok"
    THEN [reader |-> Nil, err |-> Err(resp.transport, "transfer failed")]
    ELSE IF ~resp.sizeOK
    THEN [reader |-> Nil,
          err |-> Err(RepairerError, "didn't download the correct amount of data")]
    ELSE IF resp.hash = Nil
    THEN [reader |-> Nil, err |-> Err(RepairerError, "hash was not sent from storagenode")]
    ELSE IF resp.limit = Nil
    THEN [reader |-> Nil,
          err |-> Err(RepairerError, "original order limit was not sent from storagenode")]
    ELSE IF verifyPieceHash(resp.limit, resp.hash, HashOf(resp.data)) # NoErr
    THEN [reader |-> Nil,
          err |-> Wrap(ErrPieceHashVerifyFailed,
                       verifyPieceHash(resp.limit, resp.hash, HashOf(resp.data)))]
    ELSE IF verifyOrderLimitSignature(SatelliteSignee, resp.limit) # NoErr
    THEN [reader |-> Nil, err |-> verifyOrderLimitSignature(SatelliteSignee, resp.limit)]
    ELSE [reader |-> [data |-> resp.data], err |-> NoErr]
\* downloadAndVerifyPiece up to its return statement: resp is what the dial,
\* the download stream and downloader.GetHashAndLimit deliver.
downloadChecks(resp) ==
    IF resp.transport # "ok"
    THEN [reader |-> Nil, err |-> Err(resp.transport, "transfer failed")]
    ELSE IF ~resp.sizeOK
    THEN [reader |-> Nil,
          err |-> Err(RepairerError, "didn't download the correct amount of data")]
    ELSE IF resp.hash = Nil
    THEN [reader |-> Nil, err |-> Err(RepairerError, "hash was not sent from storagenode")]
    ELSE IF resp.limit = Nil
    THEN [reader |-> Nil,
          err |-> Err(RepairerError, "original order limit was not sent from storagenode")]
    ELSE IF verifyOrderLimitSignature(SatelliteSignee, resp.limit) # NoErr
    THEN [reader |-> Nil, err |-> verifyOrderLimitSignature(SatelliteSignee, resp.limit)]
    ELSE IF verifyPieceHash(resp.limit, resp.hash, HashOf(resp.data)) # NoErr
    THEN [reader |-> Nil,
          err |-> Wrap(ErrPieceHashVerifyFailed,
                       verifyPieceHash(resp.limit, resp.hash, HashOf(resp.data)))]
    ELSE [reader |-> [data |-> resp.data], err |-> NoErr]

\* downloadAndVerifyPiece with its deferred Close calls, which combine a
\* close error into the named result err after the return statement.
downloadAndVerifyPiece(resp) ==
    LET r == downloadChecks(resp)
    IN  [reader |-> r.reader,
         err |-> IF resp.closeErr
                 THEN Combine(r.err, Err(PiecestoreError, "close failed"))
                 ELSE r.err]

\* ------------------------------------------------------------------ storage nodes

\* The id of a piece that is none of the segment's.
OtherPieceId == 0

\* What the node behind slot i delivers, by behaviour.
ValidResponse(i) ==
    [transport |-> "ok", sizeOK |-> TRUE, data |-> "piece",
     hash |-> PieceHash(i, "piece", UplinkKey),
     limit |-> OrderLimit(i, SatelliteSignee), closeErr |-> FALSE]

TransportFailure(class) ==
    [transport |-> class, sizeOK |-> FALSE, data |-> "", hash |-> Nil,
     limit |-> Nil, closeErr |-> FALSE]

Response(kind, i) ==
    CASE kind = "valid"    -> ValidResponse(i)
      \* the bytes served are not the bytes the uplink hashed and signed
      [] kind = "tampered" -> [ValidResponse(i) EXCEPT !.data = "corrupt"]
      \* the echoed order limit is signed by somebody else than the satellite
      [] kind = "forged"   -> [ValidResponse(i) EXCEPT !.limit = OrderLimit(i, "forger")]
      \* the node answers with another piece it holds: that piece's bytes, its
      \* hash signed by the uplink and its order limit signed by the satellite
      [] kind = "replayed" ->
            [ValidResponse(i) EXCEPT
                !.data = "other piece",
                !.hash = PieceHash(OtherPieceId, "other piece", UplinkKey),
                !.limit = [OrderLimit(i, SatelliteSignee) EXCEPT
                              !.PieceId = OtherPieceId,
                              !.SatelliteSignature.PieceId = OtherPieceId]]
      \* dial or download fails: piecestore wraps the error in its class
      [] kind \in {"offline", "stale", "cancelled"} -> TransportFailure(PiecestoreError)

\* Behaviours a slot's node is drawn from when Get is called.  A "faulty"
\* node fails in one of the ways of Faults; which one shows when it answers.
NodeKinds == {"valid", "tampered", "replayed", "faulty"}
Faults == {"forged", "offline"}

\* What a download can meet, besides the node's answer, once the caller's
\* context is cancelled: the dial or the stream fails.
CancelKinds == {"cancelled"}

\* ------------------------------------------------------------------ Get

\* CreatePutRepairOrderLimits has not been called.
OrdersIdle ==
    /\ redundancy = [TotalCount |-> OrdersTotal, OptimalThreshold |-> 1]
    /\ optimalThresholdMultiplier = <<1, 1>>
    /\ getOrderLimits = << >>
    /\ newNodes = << >>
    /\ putLimits = << >>
    /\ pieceNum = 0
    /\ totalPiecesToRepair = 0
    /\ nextNode = 1
    /\ opc = "idle"
    /\ ordersRet = Nil

\* RecordAudits has not been called.
AuditIdle ==
    /\ maxRetries = 0
    /\ successes = << >>
    /\ fails = << >>
    /\ unknowns = << >>
    /\ offlines = << >>
    /\ pendingAudits = << >>
    /\ tries = 0
    /\ auditErrlist = {}
    /\ applied = << >>
    /\ apc = "idle"
    /\ auditRet = Nil

\* Neither verifyPieceHash nor downloadAndVerifyPiece is called on its own.
VerifierIdle ==
    /\ vpc = "idle"
    /\ vLimit = Nil
    /\ vHash = Nil
    /\ vExpected = << >>
    /\ dResp = Nil
    /\ vResults = << >>

\* Repair has not been called.
RepairIdle ==
    /\ rs = [TotalCount |-> TotalCount]
    /\ repairLimits = << >>
    /\ successfulNeeded = 0
    /\ repairCtx = "live"
    /\ psCtx = "live"
    /\ encoded = FALSE
    /\ timer = "none"
    /\ rpc = "idle"
    /\ task = << >>
    /\ infos = << >>
    /\ received = 0
    /\ successfulCount = 0
    /\ failureCount = 0
    /\ cancellationCount = 0
    /\ successfulNodes = << >>
    /\ successfulHashes = << >>
    /\ repairRet = Nil

RECURSIVE countNonNil(_, _)
countNonNil(ls, i) ==
    IF i > Len(ls) THEN 0
    ELSE (IF ls[i] # Nil THEN 1 ELSE 0) + countNonNil(ls, i + 1)

\* Mutant: every slot counts, nil or not.
nonNilCountAll(ls) == Len(ls)

nonNilCount(ls) == countNonNil(ls, 1)

\* A worker closure: its position; its locals while it downloads
\* (triedLastIPPort, the number of downloadAndVerifyPiece calls so far, the
\* err of the first call when a second one is under way); and, once it has
\* folded a result into the counters, what the node answered to the call
\* whose result it kept.
Worker(pc, tried, attempts, first, got) ==
    [pc |-> pc, tried |-> tried, attempts |-> attempts, first |-> first, got |-> got]

Idle == Worker("none", FALSE, 0, NoErr, "none")

\* Get is called. Its map cachedIPsAndPorts holds per limit either "differs",
\* an address for the node other than the limit's; "none", no address or the
\* limit's own; or "any", left open until the worker reads it at ec.go:123.
GetStart(caches) ==
    /\ \E k \in 1..MaxRequired : es = [RequiredCount |-> k, TotalCount |-> TotalCount]
    /\ \E len \in {TotalCount - 1, TotalCount} :
         \E kinds \in [1..len -> NodeKinds \cup {"absent"}] :
            /\ limits = [i \in 1..len |->
                            IF kinds[i] = "absent" THEN Nil ELSE AddressedLimit(i)]
            /\ node = kinds
            /\ cachedIPsAndPorts \in [1..len -> caches]
            /\ w = [i \in 1..len |-> Idle]
    /\ ctxErr = FALSE
    /\ gpc = "start"
    /\ idx = 1
    /\ successfulPieces = 0
    /\ inProgress = 0
    /\ unusedLimits = 0
    /\ pieceReaders = << >>
    /\ failedPieces = << >>
    /\ errlist = {}
    /\ getRet = Nil
    /\ RepairIdle
    /\ VerifierIdle
    /\ OrdersIdle
    /\ AuditIdle

GetInit == GetStart({"any"})

\* The caller cancels ctx; nothing in Get reacts except limiter.Go and the
\* transfers that derive their context from it.
CancelCtx ==
    /\ gpc # "done"
    /\ ~ctxErr
    /\ ctxErr' = TRUE
    /\ UNCHANGED <<repairVars, verifyVars, ordersVars, auditVars>>
    /\ UNCHANGED <<es, limits, node, cachedIPsAndPorts, gpc, idx, successfulPieces, inProgress,
                   unusedLimits, pieceReaders, failedPieces, errlist, w, getRet>>

\* ec.go:69-77
LimitsMatchScheme == Len(limits) = es.TotalCount
\* Mutant: the number of non-nil limits is not compared with k.
EnoughLimitsUnchecked == nonNilCount(limits) >= 0
EnoughLimits == nonNilCount(limits) >= es.RequiredCount

GetRejects ==
    /\ gpc = "start"
    /\ ~(LimitsMatchScheme /\ EnoughLimits)
    /\ gpc' = "done"
    /\ getRet' = [stream |-> Nil, failedPieces |-> << >>,
                  err |-> IF ~LimitsMatchScheme
                          THEN Err(RepairerError, "number of limits slice does not match total count")
                          ELSE Err(RepairerError, "number of non-nil limits is less than required count")]
    /\ UNCHANGED <<repairVars, verifyVars, ordersVars, auditVars>>
    /\ UNCHANGED <<es, limits, node, cachedIPsAndPorts, ctxErr, idx, successfulPieces, inProgress,
                   unusedLimits, pieceReaders, failedPieces, errlist, w>>

\* ec.go:79-89
GetBegins ==
    /\ gpc = "start"
    /\ LimitsMatchScheme /\ EnoughLimits
    /\ unusedLimits' = nonNilCount(limits)
    /\ gpc' = "loop"
    /\ UNCHANGED <<repairVars, verifyVars, ordersVars, auditVars>>
    /\ UNCHANGED <<es, limits, node, cachedIPsAndPorts, ctxErr, idx, successfulPieces, inProgress,
                   pieceReaders, failedPieces, errlist, w, getRet>>

\* The range loop moves on; after the last slot Get sits in limiter.Wait.
Advance ==
    /\ idx' = idx + 1
    /\ gpc' = IF idx + 1 > Len(limits) THEN "wait" ELSE "loop"

\* ec.go:92-94
SkipNilLimit ==
    /\ gpc = "loop"
    /\ limits[idx] = Nil
    /\ Advance
    /\ UNCHANGED <<repairVars, verifyVars, ordersVars, auditVars>>
    /\ UNCHANGED <<es, limits, node, cachedIPsAndPorts, ctxErr, successfulPieces, inProgress,
                   unusedLimits, pieceReaders, failedPieces, errlist, w, getRet>>

\* Workers that hold one of the limiter's slots.
Busy == {i \in DOMAIN w : w[i].pc \notin {"none", "done"}}

\* sync2.NewLimiter(es.RequiredCount()): Go starts fn once a slot is free.
LimiterHasSlot == Cardinality(Busy) < es.RequiredCount

\* ec.go:97: limiter.Go starts the closure of slot idx in a goroutine.
LaunchWorker ==
    /\ gpc = "loop"
    /\ limits[idx] # Nil
    /\ ~ctxErr
    /\ LimiterHasSlot
    /\ w' = [w EXCEPT ![idx].pc = "lock"]
    /\ Advance
    /\ UNCHANGED <<repairVars, verifyVars, ordersVars, auditVars>>
    /\ UNCHANGED <<es, limits, node, cachedIPsAndPorts, ctxErr, successfulPieces, inProgress,
                   unusedLimits, pieceReaders, failedPieces, errlist, getRet>>

\* ec.go:97: limiter.Go returns false on a cancelled context; fn never runs.
LaunchRefused ==
    /\ gpc = "loop"
    /\ limits[idx] # Nil
    /\ ctxErr
    /\ Advance
    /\ UNCHANGED <<repairVars, verifyVars, ordersVars, auditVars>>
    /\ UNCHANGED <<es, limits, node, cachedIPsAndPorts, ctxErr, successfulPieces, inProgress,
                   unusedLimits, pieceReaders, failedPieces, errlist, w, getRet>>

\* cond.Broadcast: every goroutine in cond.Wait is made runnable.
Broadcast(ws) ==
    [j \in DOMAIN ws |-> IF ws[j].pc = "wait" THEN [ws[j] EXCEPT !.pc = "lock"] ELSE ws[j]]

\* Mutant: the unused limits are left out of what can still succeed.
UnreachableIgnoringUnused == successfulPieces + inProgress < es.RequiredCount
\* Mutant: a worker waits only when more than k are done or under way.
SaturatedStrict == successfulPieces + inProgress > es.RequiredCount
\* Mutant: the second test never gives up.
UnreachableNever == FALSE
\* Mutant: the second test gives up when exactly k can still be reached.
UnreachableOffByOne == successfulPieces + inProgress + unusedLimits <= es.RequiredCount
\* Mutant: the pieces already downloaded are left out of the third test.
SaturatedIgnoringSuccessful == inProgress >= es.RequiredCount
\* The three tests of the admission loop (ec.go:103, 108, 114).
EnoughPieces == successfulPieces >= es.RequiredCount
Unreachable == successfulPieces + inProgress + unusedLimits < es.RequiredCount
Saturated == successfulPieces + inProgress >= es.RequiredCount

\* ec.go:103-107
WorkerSeesEnough ==
    \E i \in DOMAIN w :
    /\ w[i].pc = "lock"
    /\ EnoughPieces
    /\ w' = [Broadcast(w) EXCEPT ![i].pc = "signal"]
    /\ UNCHANGED <<repairVars, verifyVars, ordersVars, auditVars>>
    /\ UNCHANGED <<es, limits, node, cachedIPsAndPorts, ctxErr, gpc, idx, successfulPieces, inProgress,
                   unusedLimits, pieceReaders, failedPieces, errlist, getRet>>

\* ec.go:108-112
WorkerSeesUnreachable ==
    \E i \in DOMAIN w :
    /\ w[i].pc = "lock"
    /\ ~EnoughPieces
    /\ Unreachable
    /\ w' = [Broadcast(w) EXCEPT ![i].pc = "signal"]
    /\ UNCHANGED <<repairVars, verifyVars, ordersVars, auditVars>>
    /\ UNCHANGED <<es, limits, node, cachedIPsAndPorts, ctxErr, gpc, idx, successfulPieces, inProgress,
                   unusedLimits, pieceReaders, failedPieces, errlist, getRet>>

\* ec.go:114-117: cond.Wait puts the goroutine on the notify list and
\* releases the lock in one step.
WorkerWaits ==
    \E i \in DOMAIN w :
    /\ w[i].pc = "lock"
    /\ ~EnoughPieces
    /\ ~Unreachable
    /\ Saturated
    /\ w' = [w EXCEPT ![i].pc = "wait"]
    /\ UNCHANGED <<repairVars, verifyVars, ordersVars, auditVars>>
    /\ UNCHANGED <<es, limits, node, cachedIPsAndPorts, ctxErr, gpc, idx, successfulPieces, inProgress,
                   unusedLimits, pieceReaders, failedPieces, errlist, getRet>>

\* Mutant: the worker claims its download without taking its limit out of
\* unusedLimits.
WorkerClaimsKeepingUnused ==
    \E i \in DOMAIN w :
    /\ w[i].pc = "lock"
    /\ ~EnoughPieces
    /\ ~Unreachable
    /\ ~Saturated
    /\ inProgress' = inProgress + 1
    /\ w' = [w EXCEPT ![i] = Worker("fetch", FALSE, 1, NoErr, "none")]
    /\ UNCHANGED <<repairVars, verifyVars, ordersVars, auditVars>>
    /\ UNCHANGED <<es, limits, node, cachedIPsAndPorts, ctxErr, gpc, idx, successfulPieces, unusedLimits,
                   pieceReaders, failedPieces, errlist, getRet>>

\* ec.go:119-121: the worker claims its limit and leaves the lock.
WorkerClaims ==
    \E i \in DOMAIN w :
    /\ w[i].pc = "lock"
    /\ ~EnoughPieces
    /\ ~Unreachable
    /\ ~Saturated
    /\ unusedLimits' = unusedLimits - 1
    /\ inProgress' = inProgress + 1
    /\ w' = [w EXCEPT ![i] = Worker("fetch", FALSE, 1, NoErr, "none")]
    /\ UNCHANGED <<repairVars, verifyVars, ordersVars, auditVars>>
    /\ UNCHANGED <<es, limits, node, cachedIPsAndPorts, ctxErr, gpc, idx, successfulPieces,
                   pieceReaders, failedPieces, errlist, getRet>>

\* ec.go:123-129: triedLastIPPort, set when cachedIPsAndPorts holds an
\* address for the node that differs from the limit's. The map is read once
\* per worker; an entry left open is drawn where the worker first uses it, at
\* ec.go:134.
LastIPPort(i) ==
    IF cachedIPsAndPorts[i] = "any" THEN BOOLEAN ELSE {cachedIPsAndPorts[i] = "differs"}

\* What an attempt of worker i can meet: the node's behaviour, a dead cached
\* address when the attempt goes to the cached address, or the effects of a
\* cancelled context.
Meets(i, triedLastIPPort) ==
    (IF node[i] = "faulty" THEN Faults ELSE {node[i]})
    \cup (IF w[i].pc = "fetch" /\ triedLastIPPort THEN {"stale"} ELSE {})
    \cup (IF ctxErr THEN CancelKinds ELSE {})

\* Mutant: the worker downloads again after any failure of the first call.
RetryOnAnyError(triedLastIPPort, err) == triedLastIPPort /\ err # NoErr
\* ec.go:134
RetryWithNodeAddress(triedLastIPPort, err) ==
    triedLastIPPort /\ Has(PiecestoreError, err)

\* ec.go:131-136: the attempt against the cached address failed in the
\* piecestore class; the worker downloads again from the limit's address.
WorkerRetries ==
    \E i \in DOMAIN w :
    /\ w[i].pc = "fetch"
    /\ \E triedLastIPPort \in LastIPPort(i) :
       \E kind \in Meets(i, triedLastIPPort) :
          LET r == downloadAndVerifyPiece(Response(kind, i)) IN
          /\ RetryWithNodeAddress(triedLastIPPort, r.err)
          /\ w' = [w EXCEPT ![i] = Worker("retry", triedLastIPPort, 2, r.err, "none")]
    /\ UNCHANGED <<repairVars, verifyVars, ordersVars, auditVars>>
    /\ UNCHANGED <<es, limits, node, cachedIPsAndPorts, ctxErr, gpc, idx, successfulPieces, inProgress,
                   unusedLimits, pieceReaders, failedPieces, errlist, getRet>>

\* The attempt whose result the worker keeps is over.
LastAttempt(i, triedLastIPPort, err) ==
    IF w[i].pc = "retry" THEN triedLastIPPort = w[i].tried
    ELSE ~RetryWithNodeAddress(triedLastIPPort, err)

\* Mutant: no failed download is taken for a verification failure.
IsVerificationFailureNever(err) == FALSE
\* Mutant: every failed download is taken for a verification failure.
IsVerificationFailureAny(err) == err # NoErr
\* ec.go:141
IsVerificationFailure(err) == Has(ErrPieceHashVerifyFailed, err)

\* ec.go:137-156
WorkerFails ==
    \E i \in DOMAIN w :
    /\ w[i].pc \in {"fetch", "retry"}
    /\ \E triedLastIPPort \in LastIPPort(i) :
       \E kind \in Meets(i, triedLastIPPort) :
          LET r == downloadAndVerifyPiece(Response(kind, i)) IN
          /\ LastAttempt(i, triedLastIPPort, r.err)
          /\ r.err # NoErr
          /\ inProgress' = inProgress - 1
          /\ failedPieces' =
                IF IsVerificationFailure(r.err)
                THEN Append(failedPieces,
                            [PieceNum |-> i, NodeId |-> limits[i].Limit.StorageNodeId])
                ELSE failedPieces
          /\ errlist' = errlist \cup {[node |-> limits[i].Limit.StorageNodeId, err |-> r.err]}
          /\ w' = [w EXCEPT ![i] = Worker("signal", FALSE, 0, NoErr, kind)]
    /\ UNCHANGED <<repairVars, verifyVars, ordersVars, auditVars>>
    /\ UNCHANGED <<es, limits, node, cachedIPsAndPorts, ctxErr, gpc, idx, successfulPieces,
                   unusedLimits, pieceReaders, getRet>>

\* Mutant: the closure writes to the slot of a variable it shares with the
\* other closures.
StoreReaderShared(readers, i, reader) == (1 :> reader) @@ readers
\* ec.go:158: pieceReaders[currentLimitIndex] = pieceReadCloser, with the
\* closure's own copy of the index (ec.go:96).
StoreReader(readers, i, reader) == (i :> reader) @@ readers

\* ec.go:137-138, 158-161
WorkerSucceeds ==
    \E i \in DOMAIN w :
    /\ w[i].pc \in {"fetch", "retry"}
    /\ \E triedLastIPPort \in LastIPPort(i) :
       \E kind \in Meets(i, triedLastIPPort) :
          LET r == downloadAndVerifyPiece(Response(kind, i)) IN
          /\ LastAttempt(i, triedLastIPPort, r.err)
          /\ r.err = NoErr
          /\ inProgress' = inProgress - 1
          /\ pieceReaders' = StoreReader(pieceReaders, i, r.reader)
          /\ successfulPieces' = successfulPieces + 1
          /\ w' = [w EXCEPT ![i] = Worker("signal", FALSE, 0, NoErr, kind)]
    /\ UNCHANGED <<repairVars, verifyVars, ordersVars, auditVars>>
    /\ UNCHANGED <<es, limits, node, cachedIPsAndPorts, ctxErr, gpc, idx, unusedLimits,
                   failedPieces, errlist, getRet>>

Waiting == {j \in DOMAIN w : w[j].pc = "wait"}

\* Mutant: the closure ends with a Broadcast in place of the deferred Signal.
WorkerBroadcasts ==
    \E i \in DOMAIN w :
    /\ w[i].pc = "signal"
    /\ w' = [j \in DOMAIN w |->
                IF j = i THEN [w[j] EXCEPT !.pc = "done"]
                ELSE IF j \in Waiting THEN [w[j] EXCEPT !.pc = "lock"] ELSE w[j]]
    /\ UNCHANGED <<repairVars, verifyVars, ordersVars, auditVars>>
    /\ UNCHANGED <<es, limits, node, cachedIPsAndPorts, ctxErr, gpc, idx, successfulPieces, inProgress,
                   unusedLimits, pieceReaders, failedPieces, errlist, getRet>>

\* Mutant: the closure ends without the deferred cond.Signal.
WorkerEndsSilently ==
    \E i \in DOMAIN w :
    /\ w[i].pc = "signal"
    /\ w' = [w EXCEPT ![i].pc = "done"]
    /\ UNCHANGED <<repairVars, verifyVars, ordersVars, auditVars>>
    /\ UNCHANGED <<es, limits, node, cachedIPsAndPorts, ctxErr, gpc, idx, successfulPieces, inProgress,
                   unusedLimits, pieceReaders, failedPieces, errlist, getRet>>

\* ec.go:99: the deferred cond.Signal, after the deferred Unlock, wakes one
\* waiting goroutine if there is one; then fn is over and the limiter takes
\* its slot back.
WorkerSignals ==
    \E i \in DOMAIN w :
    /\ w[i].pc = "signal"
    /\ IF Waiting = {}
       THEN w' = [w EXCEPT ![i].pc = "done"]
       ELSE \E j \in Waiting : w' = [w EXCEPT ![i].pc = "done", ![j].pc = "lock"]
    /\ UNCHANGED <<repairVars, verifyVars, ordersVars, auditVars>>
    /\ UNCHANGED <<es, limits, node, cachedIPsAndPorts, ctxErr, gpc, idx, successfulPieces, inProgress,
                   unusedLimits, pieceReaders, failedPieces, errlist, getRet>>

\* infectious.NewFEC(k, n) accepts the scheme (its upper limit on n lies far
\* beyond the schemes explored here).
NewFECAccepts(k, n) == k > 0 /\ n > 0 /\ k <= n

\* Mutant: Get gives up only when no piece at all was downloaded.
IrreparableOnlyWhenNone == successfulPieces = 0
\* ec.go:168: the test after limiter.Wait
Irreparable == successfulPieces < es.RequiredCount

\* Mutant: Get goes on without limiter.Wait.
LimiterWaitSkipped == TRUE
\* ec.go:166: limiter.Wait returns once every closure given to Go has ended.
LimiterWaitDone == Busy = {}

\* ec.go:166-188
GetReturns ==
    /\ gpc = "wait"
    /\ LimiterWaitDone
    /\ gpc' = "done"
    /\ getRet' =
         IF Irreparable
         THEN [stream |-> Nil, failedPieces |-> failedPieces,
               err |-> [classes |-> {"irreparable"}, msg |-> "not enough pieces",
                        piecesAvailable |-> successfulPieces,
                        piecesRequired |-> es.RequiredCount,
                        errlist |-> errlist]]
         ELSE IF ~NewFECAccepts(es.RequiredCount, es.TotalCount)
         THEN [stream |-> Nil, failedPieces |-> failedPieces,
               err |-> Err(RepairerError, "fec")]
         ELSE [stream |-> [readers |-> pieceReaders, required |-> es.RequiredCount],
               failedPieces |-> failedPieces, err |-> NoErr]
    /\ UNCHANGED <<repairVars, verifyVars, ordersVars, auditVars>>
    /\ UNCHANGED <<es, limits, node, cachedIPsAndPorts, ctxErr, idx, successfulPieces, inProgress,
                   unusedLimits, pieceReaders, failedPieces, errlist, w>>

GetNext ==
    \/ CancelCtx
    \/ GetRejects
    \/ GetBegins
    \/ SkipNilLimit
    \/ LaunchWorker
    \/ LaunchRefused
    \/ WorkerSeesEnough
    \/ WorkerSeesUnreachable
    \/ WorkerWaits
    \/ WorkerClaims
    \/ WorkerRetries
    \/ WorkerFails
    \/ WorkerSucceeds
    \/ WorkerSignals
    \/ GetReturns

GetSpec == GetInit /\ [][GetNext]_vars

\* Every goroutine that can take a step is scheduled in the end, and every
\* download that was started ends (its own timeout bounds it, ec.go:198).
GetLiveSpec == GetInit /\ [][GetNext]_vars /\ WF_vars(GetNext)

\* Get with every content of cachedIPsAndPorts fixed at the call.
RetryInit == GetStart({"differs", "none"})

RetrySpec == RetryInit /\ [][GetNext]_vars

\* ------------------------------------------------------------------ Get, the scenarios

ScenarioRequired == 4     \* k of the scenarios; n is twice k, k + 1 limits are non-nil

\* The non-nil slots of the scenarios.
ScenarioSlots == ScenarioRequired..(2 * ScenarioRequired)

\* The nodes of the non-nil slots: either all deliver their piece but one,
\* which fails in the network; or all but two, of which one serves bytes that
\* do not match the signed hash and one fails in the network.
ScenarioNodes ==
    {kinds \in [ScenarioSlots -> {"valid", "tampered", "offline"}] :
        /\ Cardinality({i \in ScenarioSlots : kinds[i] = "offline"}) = 1
        /\ Cardinality({i \in ScenarioSlots : kinds[i] = "tampered"}) <= 1}

ScenarioInit ==
    /\ es = [RequiredCount |-> ScenarioRequired, TotalCount |-> 2 * ScenarioRequired]
    /\ \E kinds \in ScenarioNodes :
          /\ node = [i \in 1..(2 * ScenarioRequired) |->
                        IF i \in ScenarioSlots THEN kinds[i] ELSE "absent"]
          /\ limits = [i \in 1..(2 * ScenarioRequired) |->
                          IF i \in ScenarioSlots THEN AddressedLimit(i) ELSE Nil]
    /\ cachedIPsAndPorts = [i \in 1..(2 * ScenarioRequired) |-> "none"]
    /\ w = [i \in 1..(2 * ScenarioRequired) |-> Idle]
    /\ ctxErr = FALSE
    /\ gpc = "start"
    /\ idx = 1
    /\ successfulPieces = 0
    /\ inProgress = 0
    /\ unusedLimits = 0
    /\ pieceReaders = << >>
    /\ failedPieces = << >>
    /\ errlist = {}
    /\ getRet = Nil
    /\ RepairIdle
    /\ VerifierIdle
    /\ OrdersIdle
    /\ AuditIdle

\* The caller's context stays live, the preconditions hold and
\* cachedIPsAndPorts is empty, so every download goes to the limit's address.
ScenarioNext ==
    \/ GetBegins
    \/ SkipNilLimit
    \/ LaunchWorker
    \/ WorkerSeesEnough
    \/ WorkerSeesUnreachable
    \/ WorkerWaits
    \/ WorkerClaims
    \/ WorkerFails
    \/ WorkerSucceeds
    \/ WorkerSignals
    \/ GetReturns

ScenarioSpec == ScenarioInit /\ [][ScenarioNext]_vars

\* ------------------------------------------------------------------ Get, several waiters
\* Two workers can wait in cond.Wait at once only when the limiter has a
\* third slot for the download they wait behind: k is at least 3, two pieces
\* are in, and five limits are there to launch.
ContentionRequired == 3

ContentionInit ==
    /\ es = [RequiredCount |-> ContentionRequired, TotalCount |-> ContentionRequired + 2]
    /\ node \in [1..(ContentionRequired + 2) -> {"valid", "offline"}]
    /\ limits = [i \in 1..(ContentionRequired + 2) |-> AddressedLimit(i)]
    /\ cachedIPsAndPorts = [i \in 1..(ContentionRequired + 2) |-> "none"]
    /\ w = [i \in 1..(ContentionRequired + 2) |-> Idle]
    /\ ctxErr = FALSE
    /\ gpc = "start"
    /\ idx = 1
    /\ successfulPieces = 0
    /\ inProgress = 0
    /\ unusedLimits = 0
    /\ pieceReaders = << >>
    /\ failedPieces = << >>
    /\ errlist = {}
    /\ getRet = Nil
    /\ RepairIdle
    /\ VerifierIdle
    /\ OrdersIdle
    /\ AuditIdle

\* The caller's context stays live, no limit is nil and cachedIPsAndPorts is
\* empty.
ContentionNext ==
    \/ GetBegins
    \/ LaunchWorker
    \/ WorkerSeesEnough
    \/ WorkerSeesUnreachable
    \/ WorkerWaits
    \/ WorkerClaims
    \/ WorkerFails
    \/ WorkerSucceeds
    \/ WorkerSignals
    \/ GetReturns

ContentionSpec == ContentionInit /\ [][ContentionNext]_vars

\* ------------------------------------------------------------------ Repair

MaxNeeded == 2       \* largest successfulNeeded explored

\* storj.NodeID{}, the zero value
ZeroNodeID == 0

ContextCanceled == "context canceled"              \* context.Canceled
DeadlineExceeded == "context deadline exceeded"    \* context.DeadlineExceeded

\* ctx.Err() of a context that is done for the reason `why`.
CtxErr(why) ==
    IF why = "canceled" THEN Err(ContextCanceled, "context canceled")
    ELSE Err(DeadlineExceeded, "context deadline exceeded")

\* Get has not been called.
GetIdle ==
    /\ es = [RequiredCount |-> 1, TotalCount |-> TotalCount]
    /\ limits = << >>
    /\ node = << >>
    /\ cachedIPsAndPorts = << >>
    /\ ctxErr = FALSE
    /\ gpc = "idle"
    /\ idx = 1
    /\ successfulPieces = 0
    /\ inProgress = 0
    /\ unusedLimits = 0
    /\ pieceReaders = << >>
    /\ failedPieces = << >>
    /\ errlist = {}
    /\ w = << >>
    /\ getRet = Nil

\* The limit of slot i for the node `id`.
PutLimit(i, id) == [Limit |-> [StorageNodeId |-> id, PieceId |-> i], Address |-> i]

\* Node ids of the slots: every slot has an id of its own, except that two
\* slots a and b may both carry the id v, which may be the zero value.
NodeIDOf(i, a, b, v) == IF i \in {a, b} THEN v ELSE i + 1

RepairInit ==
    /\ GetIdle
    /\ VerifierIdle
    /\ OrdersIdle
    /\ AuditIdle
    /\ rs = [TotalCount |-> TotalCount]
    /\ \E len \in {TotalCount - 1, TotalCount} :
         \E present \in [1..len -> BOOLEAN] :
         \E a, b \in 0..len :
         \E v \in {ZeroNodeID, ZeroNodeID + 1} :
            /\ (a = 0 /\ b = 0 /\ v = ZeroNodeID)
               \/ (0 < a /\ a < b /\ present[a] /\ present[b])
            /\ repairLimits = [i \in 1..len |->
                                  IF present[i] THEN PutLimit(i, NodeIDOf(i, a, b, v))
                                  ELSE Nil]
            /\ task = [i \in 1..len |-> "none"]
    /\ successfulNeeded \in 1..MaxNeeded
    /\ repairCtx = "live"
    /\ psCtx = "live"
    /\ encoded = FALSE
    /\ timer = "none"
    /\ rpc = "start"
    /\ infos = << >>
    /\ received = 0
    /\ successfulCount = 0
    /\ failureCount = 0
    /\ cancellationCount = 0
    /\ successfulNodes = << >>
    /\ successfulHashes = << >>
    /\ repairRet = Nil

\* ec.go:508-529: the ids of the slots (the zero value for a nil slot) are
\* sorted and neighbours compared; equal neighbours count unless they are the
\* zero value.
unique(ls) ==
    IF Len(ls) < 2 THEN TRUE
    ELSE LET ids == [i \in 1..Len(ls) |->
                        IF ls[i] # Nil THEN ls[i].Limit.StorageNodeId ELSE ZeroNodeID]
             sorted == SortSeq(ids, LAMBDA a, b : a < b)
         IN  \A i \in 2..Len(sorted) :
                ~(sorted[i] # ZeroNodeID /\ sorted[i] = sorted[i - 1])

\* ec.go:315-316
PieceCountMatches == Len(repairLimits) = rs.TotalCount

\* The caller's context ends, and with it the upload context derived from it.
CancelRepairCtx ==
    /\ rpc \in {"start", "drain"}
    /\ repairCtx = "live"
    /\ \E why \in {"canceled", "deadline"} :
          /\ repairCtx' = why
          /\ psCtx' = IF psCtx = "live" THEN why ELSE psCtx
    /\ UNCHANGED <<getVars, verifyVars, ordersVars, auditVars>>
    /\ UNCHANGED <<rs, repairLimits, successfulNeeded, encoded, timer, rpc, task, infos,
                   received, successfulCount, failureCount, cancellationCount,
                   successfulNodes, successfulHashes, repairRet>>

\* ec.go:315-322
RepairRejects ==
    /\ rpc = "start"
    /\ ~(PieceCountMatches /\ unique(repairLimits))
    /\ rpc' = "done"
    /\ repairRet' = [successfulNodes |-> Nil, successfulHashes |-> Nil,
                     err |-> IF ~PieceCountMatches
                             THEN Err(RepairerError, "size of limits slice does not match total count")
                             ELSE Err(RepairerError, "duplicated nodes are not allowed")]
    /\ UNCHANGED <<getVars, verifyVars, ordersVars, auditVars>>
    /\ UNCHANGED <<rs, repairLimits, successfulNeeded, repairCtx, psCtx, encoded, timer,
                   task, infos, received, successfulCount, failureCount,
                   cancellationCount, successfulNodes, successfulHashes>>

\* ec.go:324-327: eestream.EncodeReader2 fails.
RepairEncodeFails ==
    /\ rpc = "start"
    /\ PieceCountMatches /\ unique(repairLimits)
    /\ encoded' = TRUE
    /\ rpc' = "done"
    /\ repairRet' = [successfulNodes |-> Nil, successfulHashes |-> Nil,
                     err |-> Err("eestream", "encode failed")]
    /\ UNCHANGED <<getVars, verifyVars, ordersVars, auditVars>>
    /\ UNCHANGED <<rs, repairLimits, successfulNeeded, repairCtx, psCtx, timer,
                   task, infos, received, successfulCount, failureCount,
                   cancellationCount, successfulNodes, successfulHashes>>

\* ec.go:324-364: the data is encoded, one goroutine per slot is started, the
\* timer is armed and the result slices are made.
RepairBegins ==
    /\ rpc = "start"
    /\ PieceCountMatches /\ unique(repairLimits)
    /\ encoded' = TRUE
    /\ task' = [i \in DOMAIN repairLimits |-> "run"]
    /\ timer' = "armed"
    /\ successfulNodes' = [i \in DOMAIN repairLimits |-> Nil]
    /\ successfulHashes' = [i \in DOMAIN repairLimits |-> Nil]
    /\ rpc' = "drain"
    /\ UNCHANGED <<getVars, verifyVars, ordersVars, auditVars>>
    /\ UNCHANGED <<rs, repairLimits, successfulNeeded, repairCtx, psCtx, infos,
                   received, successfulCount, failureCount, cancellationCount, repairRet>>

\* Mutant: the timer's function cancels only when the caller's context
\* reports context.Canceled.
TimerCancelsInverted(ctx) == ctx = "canceled"
\* ec.go:355: the test of the timer's function on the caller's context.
TimerCancels(ctx) == ctx # "canceled"

\* ec.go:354-361: the timer's function cancels the upload context unless
\* the caller's context reports context.Canceled.
TimerFires ==
    /\ timer = "armed"
    /\ timer' = "fired"
    /\ psCtx' = IF TimerCancels(repairCtx) /\ psCtx = "live" THEN "canceled" ELSE psCtx
    /\ UNCHANGED <<getVars, verifyVars, ordersVars, auditVars>>
    /\ UNCHANGED <<rs, repairLimits, successfulNeeded, repairCtx, encoded, rpc, task,
                   infos, received, successfulCount, failureCount, cancellationCount,
                   successfulNodes, successfulHashes, repairRet>>

\* ec.go:336: the capacity of the results channel.
ChannelCap == Len(repairLimits)

\* ec.go:342-345: the goroutine of slot i sends putPiece's result, which
\* takes a free place in the channel, and ends; task[i] keeps whether the
\* result carried an error.
Send(i, hash, err) ==
    /\ Len(infos) < ChannelCap
    /\ task' = [task EXCEPT ![i] = IF err = NoErr THEN "ok" ELSE "err"]
    /\ infos' = Append(infos, [i |-> i, err |-> err, hash |-> hash])
    /\ UNCHANGED <<getVars, verifyVars, ordersVars, auditVars>>
    /\ UNCHANGED <<rs, repairLimits, successfulNeeded, repairCtx, psCtx, encoded, timer,
                   rpc, received, successfulCount, failureCount, cancellationCount,
                   successfulNodes, successfulHashes, repairRet>>

\* The signed hash the node of slot i returns for its piece.
UploadedHash(i) == PieceHash(repairLimits[i].Limit.PieceId, "piece", UplinkKey)

\* ec.go:443-446: a nil slot's reader is drained and closed.
PutNilSlot ==
    \E i \in DOMAIN task :
    /\ task[i] = "run"
    /\ repairLimits[i] = Nil
    /\ Send(i, Nil, NoErr)

\* ec.go:441, 443-446: closing the drained reader of a nil slot fails.
PutNilSlotCloseFails ==
    \E i \in DOMAIN task :
    /\ task[i] = "run"
    /\ repairLimits[i] = Nil
    /\ Send(i, Nil, Err("io", "close failed"))

\* ec.go:448-464, 495: dial and upload succeed.  UploadReader's result is
\* taken as it comes: when it returns a hash and no error, putPiece does not
\* look at the context, so an upload that completes while or after the
\* upload context is cancelled is a success like any other.
PutSucceeds ==
    \E i \in DOMAIN task :
    /\ task[i] = "run"
    /\ repairLimits[i] # Nil
    /\ Send(i, UploadedHash(i), NoErr)

\* Errors a dial or a transfer can end in: a fault of the node, or the
\* error of the upload context once that is done.
TransferErrors ==
    {Err(PiecestoreError, "transfer failed")}
    \cup (IF psCtx # "live" THEN {Wrap(PiecestoreError, CtxErr(psCtx))} ELSE {})

\* ec.go:450-461: the dial fails; its error is returned as it is.
PutDialFails ==
    \E i \in DOMAIN task :
    /\ task[i] = "run"
    /\ repairLimits[i] # Nil
    /\ \E e \in TransferErrors : Send(i, Nil, e)

\* Mutant: the transfer's error is returned as it came.
uploadErrorUncombined(ctx, err) == err
\* ec.go:466, 479: with the upload context cancelled, context.Canceled is put
\* first in the error.
uploadError(ctx, err) ==
    IF ctx = "canceled" THEN Combine(Err(ContextCanceled, "context canceled"), err)
    ELSE err

\* ec.go:464-495: UploadReader fails.
PutUploadFails ==
    \E i \in DOMAIN task :
    /\ task[i] = "run"
    /\ repairLimits[i] # Nil
    /\ \E e \in TransferErrors : Send(i, Nil, uploadError(psCtx, e))

\* ec.go:441: the upload succeeds and closing the piece reader fails.
PutCloseFails ==
    \E i \in DOMAIN task :
    /\ task[i] = "run"
    /\ repairLimits[i] # Nil
    /\ Send(i, UploadedHash(i), Err("io", "close failed"))

\* errs2.IsCanceled
IsCanceled(err) == Has(ContextCanceled, err)

\* Mutant: the draining loop expects one result more than there are slots.
DrainedOneMore == received = Len(repairLimits) + 1
\* Mutant: the draining loop runs once per non-nil slot.
DrainedNonNil == received = nonNilCount(repairLimits)
\* ec.go:366: the draining loop has run once per slot.
Drained == received = Len(repairLimits)

\* ec.go:367: the draining loop takes the next result off the channel.
CanReceive == rpc = "drain" /\ ~Drained /\ infos # << >>
Received ==
    /\ infos' = Tail(infos)
    /\ received' = received + 1
    /\ UNCHANGED <<getVars, verifyVars, ordersVars, auditVars>>
    /\ UNCHANGED <<rs, repairLimits, successfulNeeded, repairCtx, encoded, timer,
                   rpc, task, repairRet>>

\* Mutant: a result that carries an error is looked at before its slot.
IsNilSlotUnlessError(info) == repairLimits[info.i] = Nil /\ info.err = NoErr
\* ec.go:369: the result is of a slot without a limit.
IsNilSlot(info) == repairLimits[info.i] = Nil

\* ec.go:369-371
ReceiveNilSlot ==
    /\ CanReceive
    /\ IsNilSlot(Head(infos))
    /\ Received
    /\ UNCHANGED <<psCtx, successfulCount, failureCount, cancellationCount,
                   successfulNodes, successfulHashes>>

\* Mutant: a failed upload is logged and not counted.
ReceiveFailureUncounted ==
    /\ CanReceive
    /\ ~IsNilSlot(Head(infos))
    /\ Head(infos).err # NoErr
    /\ ~IsCanceled(Head(infos).err)
    /\ Received
    /\ UNCHANGED <<psCtx, successfulCount, failureCount, cancellationCount,
                   successfulNodes, successfulHashes>>

\* ec.go:373-379, 387
ReceiveFailure ==
    /\ CanReceive
    /\ ~IsNilSlot(Head(infos))
    /\ Head(infos).err # NoErr
    /\ ~IsCanceled(Head(infos).err)
    /\ failureCount' = failureCount + 1
    /\ Received
    /\ UNCHANGED <<psCtx, successfulCount, cancellationCount,
                   successfulNodes, successfulHashes>>

\* ec.go:373-374, 380-387
ReceiveCancellation ==
    /\ CanReceive
    /\ ~IsNilSlot(Head(infos))
    /\ Head(infos).err # NoErr
    /\ IsCanceled(Head(infos).err)
    /\ cancellationCount' = cancellationCount + 1
    /\ Received
    /\ UNCHANGED <<psCtx, successfulCount, failureCount,
                   successfulNodes, successfulHashes>>

\* Mutant: the upload context is cancelled at the first success.
ThresholdMetAlways(count) == TRUE
\* Mutant: the upload context is cancelled only past the threshold.
ThresholdMetStrict(count) == count > successfulNeeded
\* ec.go:397
ThresholdMet(count) == count >= successfulNeeded

\* Mutant: the node is recorded with the address of no slot.
pbNodeWithoutAddress(limit) == [Id |-> limit.Limit.StorageNodeId, Address |-> 0]
\* ec.go:390-393: the pb.Node made from the slot's limit.
pbNode(limit) == [Id |-> limit.Limit.StorageNodeId, Address |-> limit.Address]

\* Mutant: a success that arrives once the threshold is reached is dropped.
ReceiveSuccessUntilThreshold ==
    /\ CanReceive
    /\ ~IsNilSlot(Head(infos))
    /\ Head(infos).err = NoErr
    /\ IF successfulCount < successfulNeeded
       THEN /\ successfulNodes' =
                  [successfulNodes EXCEPT ![Head(infos).i] = pbNode(repairLimits[Head(infos).i])]
            /\ successfulHashes' =
                  [successfulHashes EXCEPT ![Head(infos).i] = Head(infos).hash]
            /\ successfulCount' = successfulCount + 1
            /\ psCtx' = IF ThresholdMet(successfulCount + 1) /\ psCtx = "live"
                        THEN "canceled" ELSE psCtx
       ELSE UNCHANGED <<successfulNodes, successfulHashes, successfulCount, psCtx>>
    /\ Received
    /\ UNCHANGED <<failureCount, cancellationCount>>

\* ec.go:390-402
ReceiveSuccess ==
    /\ CanReceive
    /\ ~IsNilSlot(Head(infos))
    /\ Head(infos).err = NoErr
    /\ successfulNodes' =
          [successfulNodes EXCEPT ![Head(infos).i] = pbNode(repairLimits[Head(infos).i])]
    /\ successfulHashes' = [successfulHashes EXCEPT ![Head(infos).i] = Head(infos).hash]
    /\ successfulCount' = successfulCount + 1
    /\ psCtx' = IF ThresholdMet(successfulCount + 1) /\ psCtx = "live"
                THEN "canceled" ELSE psCtx
    /\ Received
    /\ UNCHANGED <<failureCount, cancellationCount>>

\* Mutant: Repair fails whenever the threshold was not reached.
NoneSucceededBelowThreshold == successfulCount < successfulNeeded
\* Mutant: Repair fails only when every slot was counted as a failure.
NoneSucceededByFailures == failureCount = Len(repairLimits)
\* ec.go:417
NoneSucceeded == successfulCount = 0

\* Mutant: the deferred check leaves an error that is already there.
repairErrorKeepsFirst(ctx, err) ==
    IF ctx # "live" /\ err = NoErr THEN Err(RepairerError, "repair cancelled") ELSE err
\* ec.go:409-415: the deferred check of the caller's context replaces err.
repairError(ctx, err) ==
    IF ctx # "live" THEN Err(RepairerError, "repair cancelled") ELSE err

\* ec.go:405-431, and the deferred cancel of ec.go:339
RepairReturns ==
    /\ rpc = "drain"
    /\ Drained
    /\ timer' = IF timer = "armed" THEN "stopped" ELSE timer
    /\ psCtx' = IF psCtx = "live" THEN "canceled" ELSE psCtx
    /\ rpc' = "done"
    /\ repairRet' =
          IF NoneSucceeded
          THEN [successfulNodes |-> Nil, successfulHashes |-> Nil,
                err |-> repairError(repairCtx,
                                    Err(RepairerError, "repair to all nodes failed"))]
          ELSE [successfulNodes |-> successfulNodes,
                successfulHashes |-> successfulHashes,
                err |-> repairError(repairCtx, NoErr)]
    /\ UNCHANGED <<getVars, verifyVars, ordersVars, auditVars>>
    /\ UNCHANGED <<rs, repairLimits, successfulNeeded, repairCtx, encoded, task, infos,
                   received, successfulCount, failureCount, cancellationCount,
                   successfulNodes, successfulHashes>>

RepairNext ==
    \/ CancelRepairCtx
    \/ RepairRejects
    \/ RepairEncodeFails
    \/ RepairBegins
    \/ TimerFires
    \/ PutNilSlot
    \/ PutNilSlotCloseFails
    \/ PutSucceeds
    \/ PutDialFails
    \/ PutUploadFails
    \/ PutCloseFails
    \/ ReceiveNilSlot
    \/ ReceiveFailure
    \/ ReceiveCancellation
    \/ ReceiveSuccess
    \/ RepairReturns

RepairSpec == RepairInit /\ [][RepairNext]_vars

\* Every goroutine that can take a step is scheduled in the end; a running
\* upload can always end, by its result or by the upload context.
RepairLiveSpec == RepairInit /\ [][RepairNext]_vars /\ WF_vars(RepairNext)

\* ------------------------------------------------------------------ the verifier alone

MaxCalls == 2        \* calls made on the same arguments

VerifierPieceIds == 1..2
VerifierKeys == {UplinkKey, "other"}
VerifierHashes == {HashOf("piece"), HashOf("corrupt")}

\* Arguments of verifyPieceHash: any limit, any signed hash (the signature
\* being over any piece id and hash, by any key), any computed hash.
VerifierLimits ==
    {Nil} \cup {[OrderLimit(i, SatelliteSignee) EXCEPT !.UplinkPublicKey = key] :
                  i \in VerifierPieceIds, key \in VerifierKeys}
VerifierSignedHashes ==
    {Nil} \cup {[PieceId |-> pid, Hash |-> h, Signature |-> sig] :
                  pid \in VerifierPieceIds, h \in VerifierHashes,
                  sig \in [signer : VerifierKeys, PieceId : VerifierPieceIds,
                           Hash : VerifierHashes]}
VerifierComputed == {<< >>} \cup VerifierHashes

\* What a dial, a download and GetHashAndLimit can deliver for the limit of
\* piece 1.
DownloadResponses ==
    [transport : {"ok", PiecestoreError},
     sizeOK : BOOLEAN,
     data : {"piece", "corrupt"},
     hash : {Nil, PieceHash(1, "piece", UplinkKey), PieceHash(2, "piece", UplinkKey),
             PieceHash(1, "piece", "other")},
     limit : {Nil, OrderLimit(1, SatelliteSignee), OrderLimit(2, SatelliteSignee),
              OrderLimit(1, "forger")},
     closeErr : BOOLEAN]

VerifierInit ==
    /\ GetIdle
    /\ RepairIdle
    /\ OrdersIdle
    /\ AuditIdle
    /\ vResults = << >>
    /\ \/ /\ vpc = "verify"
          /\ vLimit \in VerifierLimits
          /\ vHash \in VerifierSignedHashes
          /\ vExpected \in VerifierComputed
          /\ dResp = Nil
       \/ /\ vpc = "download"
          /\ vLimit = Nil
          /\ vHash = Nil
          /\ vExpected = << >>
          /\ dResp \in DownloadResponses

\* ec.go:282-300: a call of verifyPieceHash; it changes nothing but its result.
VerifyCall ==
    /\ vpc = "verify"
    /\ Len(vResults) < MaxCalls
    /\ vResults' = Append(vResults, verifyPieceHash(vLimit, vHash, vExpected))
    /\ UNCHANGED <<getVars, repairVars, ordersVars, auditVars>>
    /\ UNCHANGED <<vpc, vLimit, vHash, vExpected, dResp>>

\* ec.go:194-280: a call of downloadAndVerifyPiece.
DownloadCall ==
    /\ vpc = "download"
    /\ Len(vResults) < MaxCalls
    /\ vResults' = Append(vResults, downloadAndVerifyPiece(dResp))
    /\ UNCHANGED <<getVars, repairVars, ordersVars, auditVars>>
    /\ UNCHANGED <<vpc, vLimit, vHash, vExpected, dResp>>

VerifierNext ==
    \/ VerifyCall
    \/ DownloadCall

VerifierSpec == VerifierInit /\ [][VerifierNext]_vars

\* ------------------------------------------------------------------ CreatePutRepairOrderLimits
\* service.go:547-623

\* The multipliers explored: 1, 1.5 and 2.
Multipliers == {<<1, 1>>, <<3, 2>>, <<2, 1>>}

\* math.Ceil of the fraction a / b
Ceil(a, b) == (a + b - 1) \div b

OrdersInit ==
    /\ GetIdle
    /\ RepairIdle
    /\ VerifierIdle
    /\ AuditIdle
    /\ \E optimal \in 1..OrdersTotal :
          redundancy = [TotalCount |-> OrdersTotal, OptimalThreshold |-> optimal]
    /\ optimalThresholdMultiplier \in Multipliers
    /\ \E present \in [1..OrdersTotal -> BOOLEAN] :
          getOrderLimits = [i \in 1..OrdersTotal |->
                               IF present[i] THEN AddressedLimit(i) ELSE Nil]
    /\ \E m \in 0..OrdersTotal : newNodes = [j \in 1..m |-> j]
    /\ putLimits = << >>
    /\ pieceNum = 0
    /\ totalPiecesToRepair = 0
    /\ nextNode = 1
    /\ opc = "start"
    /\ ordersRet = Nil

\* service.go:560-564
totalPiecesAfterRepair ==
    LET c == Ceil(redundancy.OptimalThreshold * optimalThresholdMultiplier[1],
                  optimalThresholdMultiplier[2])
    IN  IF c > redundancy.TotalCount THEN redundancy.TotalCount ELSE c

\* service.go:566-571
numCurrentPieces == Cardinality({i \in DOMAIN getOrderLimits : getOrderLimits[i] # Nil})

OrdersFailed == [limits |-> Nil, err |-> Err("orders", "failed")]

OrdersUnchanged ==
    /\ UNCHANGED <<getVars, repairVars, verifyVars, auditVars>>
    /\ UNCHANGED <<redundancy, optimalThresholdMultiplier, getOrderLimits, newNodes>>

\* service.go:576-579: NewSignerRepairPut fails.
OrdersSignerFails ==
    /\ opc = "start"
    /\ opc' = "done"
    /\ ordersRet' = OrdersFailed
    /\ OrdersUnchanged
    /\ UNCHANGED <<putLimits, pieceNum, totalPiecesToRepair, nextNode>>

\* service.go:559-581
OrdersBegins ==
    /\ opc = "start"
    /\ totalPiecesToRepair' = totalPiecesAfterRepair - numCurrentPieces
    /\ putLimits' = [i \in 1..redundancy.TotalCount |-> Nil]
    /\ opc' = IF newNodes = << >> THEN "save" ELSE "loop"
    /\ OrdersUnchanged
    /\ UNCHANGED <<pieceNum, nextNode, ordersRet>>

\* Mutant: the piece number is taken as it stands.
skipTakenNever(p) == p

RECURSIVE skipTaken(_)
\* service.go:583-585: the piece number moves past the pieces that exist.
skipTaken(p) ==
    IF p < redundancy.TotalCount /\ getOrderLimits[p + 1] # Nil
    THEN skipTaken(p + 1)
    ELSE p

\* service.go:591-594: signer.Sign for the node and the piece number.
SignedPutLimit(id, num) ==
    [Limit |-> [StorageNodeId |-> id, PieceNum |-> num], Address |-> id]

\* service.go:587-589: no free piece number is left for the node.
OrdersOverflow ==
    /\ opc = "loop"
    /\ skipTaken(pieceNum) >= redundancy.TotalCount
    /\ opc' = "done"
    /\ ordersRet' = OrdersFailed
    /\ OrdersUnchanged
    /\ UNCHANGED <<putLimits, pieceNum, totalPiecesToRepair, nextNode>>

\* service.go:595-597: signer.Sign fails.
OrdersSignFails ==
    /\ opc = "loop"
    /\ skipTaken(pieceNum) < redundancy.TotalCount
    /\ opc' = "done"
    /\ ordersRet' = OrdersFailed
    /\ OrdersUnchanged
    /\ UNCHANGED <<putLimits, pieceNum, totalPiecesToRepair, nextNode>>

\* service.go:582-607: one pass of the loop over newNodes; the loop ends by
\* the break of service.go:604-606 or after the last node.
OrdersAssign ==
    /\ opc = "loop"
    /\ LET p == skipTaken(pieceNum) IN
          /\ p < redundancy.TotalCount
          /\ putLimits' = [putLimits EXCEPT ![p + 1] = SignedPutLimit(newNodes[nextNode], p)]
          /\ pieceNum' = p + 1
    /\ totalPiecesToRepair' = totalPiecesToRepair - 1
    /\ IF totalPiecesToRepair - 1 = 0
       THEN nextNode' = nextNode /\ opc' = "save"
       ELSE /\ nextNode' = nextNode + 1
            /\ opc' = IF nextNode + 1 > Len(newNodes) THEN "save" ELSE "loop"
    /\ OrdersUnchanged
    /\ UNCHANGED ordersRet

\* service.go:609-612, 618-620: saveSerial or updateBandwidth fails.
OrdersSaveFails ==
    /\ opc = "save"
    /\ opc' = "done"
    /\ ordersRet' = OrdersFailed
    /\ OrdersUnchanged
    /\ UNCHANGED <<putLimits, pieceNum, totalPiecesToRepair, nextNode>>

\* service.go:614-617: SplitBucketID fails; the limits are returned with the
\* error.
OrdersSplitFails ==
    /\ opc = "save"
    /\ opc' = "done"
    /\ ordersRet' = [limits |-> putLimits, err |-> Err("orders", "failed")]
    /\ OrdersUnchanged
    /\ UNCHANGED <<putLimits, pieceNum, totalPiecesToRepair, nextNode>>

\* service.go:622
OrdersReturns ==
    /\ opc = "save"
    /\ opc' = "done"
    /\ ordersRet' = [limits |-> putLimits, err |-> NoErr]
    /\ OrdersUnchanged
    /\ UNCHANGED <<putLimits, pieceNum, totalPiecesToRepair, nextNode>>

OrdersNext ==
    \/ OrdersSignerFails
    \/ OrdersBegins
    \/ OrdersOverflow
    \/ OrdersSignFails
    \/ OrdersAssign
    \/ OrdersSaveFails
    \/ OrdersSplitFails
    \/ OrdersReturns

OrdersSpec == OrdersInit /\ [][OrdersNext]_vars

\* ------------------------------------------------------------------ RecordAudits
\* reporter.go:46-121

Categories == {"successes", "fails", "unknowns", "offlines", "pending"}

\* The lists of node ids a report can carry: no id twice.
NodeLists(ids) ==
    {l \in UNION {[1..n -> ids] : n \in 0..Cardinality(ids)} :
        \A i, j \in DOMAIN l : i < j => l[i] < l[j]}

\* The pending audit of a node: the first node's is below
\* maxReverifyCount, the others' have reached it.
PendingAudit(id) ==
    [NodeID |-> id, ReverifyCount |-> IF id = 1 THEN 0 ELSE maxReverifyCount]

Range(l) == {l[i] : i \in DOMAIN l}

AuditInit ==
    /\ GetIdle
    /\ RepairIdle
    /\ VerifierIdle
    /\ OrdersIdle
    /\ maxRetries \in 0..MaxRetriesBound
    /\ successes \in NodeLists(1..AuditNodes)
    /\ fails \in NodeLists(1..AuditNodes)
    /\ unknowns \in NodeLists({1})
    /\ offlines \in NodeLists({1})
    /\ \E l \in NodeLists(1..AuditNodes) :
          pendingAudits = [i \in DOMAIN l |-> PendingAudit(l[i])]
    /\ tries = 0
    /\ auditErrlist = {}
    /\ applied = [k \in Categories \X (1..AuditNodes) |-> 0]
    /\ apc = "loop"
    /\ auditRet = Nil

\* reporter.go:69: nothing is left to record.
NothingLeft ==
    /\ Len(successes) = 0
    /\ Len(fails) = 0
    /\ Len(unknowns) = 0
    /\ Len(offlines) = 0
    /\ Len(pendingAudits) = 0

EmptyReport ==
    [Successes |-> << >>, Fails |-> << >>, Offlines |-> << >>,
     PendingAudits |-> << >>, Unknown |-> << >>]

AuditUnchanged ==
    /\ UNCHANGED <<getVars, repairVars, verifyVars, ordersVars>>
    /\ UNCHANGED maxRetries

\* reporter.go:69-71
AuditReturnsEmpty ==
    /\ apc = "loop"
    /\ tries <= maxRetries
    /\ NothingLeft
    /\ apc' = "done"
    /\ auditRet' = [report |-> EmptyReport, err |-> NoErr]
    /\ AuditUnchanged
    /\ UNCHANGED <<successes, fails, unknowns, offlines, pendingAudits, tries,
                   auditErrlist, applied>>

\* Mutant: a list with a failed entry is handed back whole.
failedOfWhole(nodeIDs, failing) ==
    IF Range(nodeIDs) \cap failing # {} THEN nodeIDs ELSE << >>
\* reporter.go:123-181: the ids whose ApplyAudit returned an error, in the
\* order of the list.
failedOf(nodeIDs, failing) == SelectSeq(nodeIDs, LAMBDA id : id \in failing)

\* reporter.go:183-224: the pending audits neither incremented (below
\* maxReverifyCount) nor recorded as failures (at maxReverifyCount). An
\* error of containment.Delete after a recorded failure leaves the audit out
\* of the failed list, and with that list empty the function returns nil, nil.
failedPending(audits, failing) == SelectSeq(audits, LAMBDA a : a.NodeID \in failing)

\* The recordings of category c that succeed in a pass over list l in
\* which the ids of failing fail.
Records(c, l, failing) == {<<c, id>> : id \in Range(l) \ failing}

\* reporter.go:73-107: one pass; which recordings fail is up to the
\* reputation service and the containment database.
RecordPass ==
    /\ apc = "loop"
    /\ tries <= maxRetries
    /\ ~NothingLeft
    /\ \E fs \in SUBSET Range(successes), ff \in SUBSET Range(fails),
          fu \in SUBSET Range(unknowns), fo \in SUBSET Range(offlines),
          fp \in SUBSET {a.NodeID : a \in Range(pendingAudits)} :
          /\ successes' = failedOf(successes, fs)
          /\ fails' = failedOf(fails, ff)
          /\ unknowns' = failedOf(unknowns, fu)
          /\ offlines' = failedOf(offlines, fo)
          /\ pendingAudits' = failedPending(pendingAudits, fp)
          /\ auditErrlist' =
                {c \in Categories :
                    \/ c = "successes" /\ fs # {}
                    \/ c = "fails" /\ ff # {}
                    \/ c = "unknowns" /\ fu # {}
                    \/ c = "offlines" /\ fo # {}
                    \/ c = "pending" /\ fp # {}}
          /\ applied' =
                [k \in DOMAIN applied |->
                    IF k \in Records("successes", successes, fs)
                            \cup Records("fails", fails, ff)
                            \cup Records("unknowns", unknowns, fu)
                            \cup Records("offlines", offlines, fo)
                            \cup Records("pending",
                                         [i \in DOMAIN pendingAudits |->
                                             pendingAudits[i].NodeID], fp)
                    THEN applied[k] + 1 ELSE applied[k]]
    /\ tries' = tries + 1
    /\ AuditUnchanged
    /\ UNCHANGED <<apc, auditRet>>

\* reporter.go:110-120: the loop is over.
AuditReturns ==
    /\ apc = "loop"
    /\ tries > maxRetries
    /\ apc' = "done"
    /\ auditRet' =
          IF tries >= maxRetries /\ auditErrlist # {}
          THEN [report |-> [Successes |-> successes, Fails |-> fails,
                            Offlines |-> offlines, PendingAudits |-> pendingAudits,
                            Unknown |-> unknowns],
                err |-> Err("audit", "some nodes failed to be updated in overlay")]
          ELSE [report |-> EmptyReport, err |-> NoErr]
    /\ AuditUnchanged
    /\ UNCHANGED <<successes, fails, unknowns, offlines, pendingAudits, tries,
                   auditErrlist, applied>>

AuditNext ==
    \/ AuditReturnsEmpty
    \/ RecordPass
    \/ AuditReturns

AuditSpec == AuditInit /\ [][AuditNext]_vars

\* ------------------------------------------------------------------ claims about Get

Returned == gpc = "done"
NonNilSlots == {i \in DOMAIN limits : limits[i] # Nil}
\* Behaviours whose answer passes every check of downloadAndVerifyPiece.
VerifiableKinds ==
    {kind \in NodeKinds \ {"faulty"} : downloadAndVerifyPiece(Response(kind, 1)).err = NoErr}
\* Slots whose node answers a download with a piece that passes the checks.
ValidSlots == {i \in NonNilSlots : node[i] \in VerifiableKinds}
RemotePiece(i) == [PieceNum |-> i, NodeId |-> limits[i].Limit.StorageNodeId]
InFailedPieces(i) == \E p \in DOMAIN failedPieces : failedPieces[p] = RemotePiece(i)
Fetching == {i \in DOMAIN w : w[i].pc \in {"fetch", "retry"}}
IsIrreparable(err) == Has("irreparable", err)

\* C1: with len(limits) = n, a live context and at least k non-nil limits
\* whose nodes deliver a verifiable piece, Get ends with successful >= k, a
\* non-nil stream and a nil error, however the other nodes fail and however
\* the workers interleave.
C1_GetSucceeds ==
    (/\ Returned
     /\ Len(limits) = es.TotalCount
     /\ ~ctxErr
     /\ Cardinality(ValidSlots) >= es.RequiredCount)
    => (/\ successfulPieces >= es.RequiredCount
        /\ getRet.stream # Nil
        /\ getRet.err = NoErr)

C1_Witness ==
    /\ Returned
    /\ ~ctxErr
    /\ Cardinality(ValidSlots) >= es.RequiredCount
    /\ errlist # {}
    /\ getRet.err = NoErr

\* C2: with the preconditions met and fewer than k non-nil limits whose nodes
\* can deliver a verifiable piece, Get returns the irreparable error with
\* piecesAvailable = successful and piecesRequired = k, and a nil stream.
C2_GetIrreparable ==
    (/\ Returned
     /\ Len(limits) = es.TotalCount
     /\ Cardinality(NonNilSlots) >= es.RequiredCount
     /\ Cardinality(ValidSlots) < es.RequiredCount)
    => (/\ getRet.stream = Nil
        /\ IsIrreparable(getRet.err)
        /\ getRet.err.piecesAvailable = successfulPieces
        /\ getRet.err.piecesAvailable = Cardinality(DOMAIN pieceReaders)
        /\ getRet.err.piecesRequired = es.RequiredCount)

C2_Witness ==
    /\ Returned
    /\ Cardinality(NonNilSlots) >= es.RequiredCount
    /\ Cardinality(ValidSlots) < es.RequiredCount
    /\ IsIrreparable(getRet.err)
    /\ getRet.err.piecesAvailable = 1

\* C3 as stated: when Get returns, every non-nil limit whose node would
\* deliver a piece that does not match its signed hash is in failedPieces
\* (here in the runs where the preconditions hold and the context stays live).
C3_Original ==
    (Returned /\ Len(limits) = es.TotalCount
       /\ Cardinality(NonNilSlots) >= es.RequiredCount /\ ~ctxErr)
    => \A i \in NonNilSlots : node[i] = "tampered" => InFailedPieces(i)

\* C3 amended: when Get returns, with or without error, every limit whose
\* download was made and answered with a piece that does not match its signed
\* hash is in failedPieces.
C3_TamperedFetchedIsFailed ==
    Returned => \A i \in NonNilSlots : w[i].got = "tampered" => InFailedPieces(i)

C3_Witness ==
    /\ Returned
    /\ getRet.err = NoErr
    /\ \E i \in NonNilSlots : w[i].got = "tampered" /\ InFailedPieces(i)

\* C4: a download whose echoed order limit is not validly signed by the
\* satellite is never counted in successful and its reader never enters
\* pieceReaders, though the piece and its signed hash are valid.
C4_ForgedNeverAccepted ==
    /\ successfulPieces = Cardinality(DOMAIN pieceReaders)
    /\ \A i \in DOMAIN w : w[i].got = "forged" => i \notin DOMAIN pieceReaders

C4_Witness ==
    /\ Returned
    /\ \E i \in DOMAIN w : w[i].got = "forged"
    /\ successfulPieces > 0

\* The errlist entry of slot i.
ErrOf(i) == {e.err : e \in {x \in errlist : x.node = limits[i].Limit.StorageNodeId}}

\* C5 as stated: a download rejected for its order limit's signature fails in
\* the verification-failed class and its node is appended to failedPieces.
C5_Original ==
    \A i \in DOMAIN w :
        w[i].got = "forged" =>
            /\ InFailedPieces(i)
            /\ \A e \in ErrOf(i) : Has(ErrPieceHashVerifyFailed, e)

\* C5 amended: a download rejected for its order limit's signature fails
\* with a plain repairer error outside the verification-failed class: the
\* error goes to errlist and the node is not appended to failedPieces.
C5_ForgedIsPlainError ==
    \A i \in DOMAIN w :
        w[i].got = "forged" =>
            /\ ~InFailedPieces(i)
            /\ ErrOf(i) # {}
            /\ \A e \in ErrOf(i) :
                  /\ Has(RepairerError, e)
                  /\ ~Has(ErrPieceHashVerifyFailed, e)
                  /\ e.msg = "invalid order limit signature"

C5_Witness ==
    /\ Returned
    /\ \E i \in DOMAIN w : w[i].got = "forged" /\ ErrOf(i) # {}
    /\ failedPieces # << >>

\* C6: with len(limits) # n, or fewer than k non-nil limits, Get returns an
\* error, a nil stream and nil failedPieces, and at no time starts a worker,
\* a dial or a download.
C6_RejectsWithoutWork ==
    (Len(limits) # es.TotalCount \/ Cardinality(NonNilSlots) < es.RequiredCount)
    => (/\ \A i \in DOMAIN w : w[i] = Idle
        /\ inProgress = 0 /\ successfulPieces = 0
        /\ pieceReaders = << >> /\ errlist = {}
        /\ gpc \in {"start", "done"}
        /\ Returned => (/\ getRet.stream = Nil
                        /\ getRet.failedPieces = << >>
                        /\ getRet.err # NoErr
                        /\ Has(RepairerError, getRet.err)))

C6_Witness ==
    /\ Returned
    /\ Len(limits) = es.TotalCount
    /\ NonNilSlots # {}
    /\ Cardinality(NonNilSlots) < es.RequiredCount

\* C7: successful + inProgress <= k in every state; so at most k downloads
\* are under way, successful never exceeds k, no download is under way when
\* successful is k, and a successful Get holds exactly k readers.
C7_AtMostRequired ==
    /\ successfulPieces + inProgress <= es.RequiredCount
    /\ inProgress = Cardinality(Fetching)
    /\ inProgress >= 0
    /\ successfulPieces <= es.RequiredCount
    /\ successfulPieces = es.RequiredCount => Fetching = {}
    /\ (Returned /\ getRet.err = NoErr) =>
            Cardinality(DOMAIN getRet.stream.readers) = es.RequiredCount

C7_Witness ==
    /\ successfulPieces + inProgress = es.RequiredCount
    /\ successfulPieces > 0
    /\ inProgress > 0
    /\ \E i \in DOMAIN w : w[i].pc = "wait"

\* C17: every piece that Get accepts comes with a signed hash for the piece
\* id of the limit Get was given for the slot, not only for the piece id of
\* the limit the node sent back.
C17_AcceptedIsRequestedPiece ==
    \A i \in DOMAIN pieceReaders :
        Response(w[i].got, i).hash.PieceId = limits[i].Limit.PieceId

\* Slots whose download was made and whose kept attempt failed the
\* verification of the piece hash.
FailedVerification ==
    {i \in NonNilSlots :
        /\ w[i].got # "none"
        /\ Has(ErrPieceHashVerifyFailed, downloadAndVerifyPiece(Response(w[i].got, i)).err)}

\* C19: when Get returns, failedPieces holds exactly the (piece number, node)
\* pairs of the limits whose download was made and whose last attempt failed
\* the verification of the piece hash, each once; limits that failed
\* otherwise, succeeded, were never downloaded from or are nil are not in it.
C19_FailedPiecesExact ==
    (Returned /\ LimitsMatchScheme /\ EnoughLimits)
    => (/\ {failedPieces[p] : p \in DOMAIN failedPieces}
              = {RemotePiece(i) : i \in FailedVerification}
        /\ Len(failedPieces) = Cardinality(FailedVerification)
        /\ \A i \in DOMAIN limits :
              i \notin FailedVerification
              => \A p \in DOMAIN failedPieces : failedPieces[p].PieceNum # i
        /\ getRet.failedPieces = failedPieces)

C19_Witness ==
    /\ Returned
    /\ FailedVerification # {}
    /\ \E i \in NonNilSlots : w[i].got \in {"offline", "forged"}
    /\ DOMAIN pieceReaders # {}

\* C20: a download is started only by a step taken in a state with
\* successful < k, successful + inProgress < k and successful + inProgress +
\* unusedLimits >= k, and that same step takes one from unusedLimits and adds
\* one to inProgress; so none is started once successful has reached k.
C20_AdmissionAtomic ==
    [][(Fetching' \ Fetching # {} \/ inProgress' > inProgress)
       => (/\ successfulPieces < es.RequiredCount
           /\ successfulPieces + inProgress < es.RequiredCount
           /\ successfulPieces + inProgress + unusedLimits >= es.RequiredCount
           /\ unusedLimits' = unusedLimits - 1
           /\ inProgress' = inProgress + 1
           /\ successfulPieces' = successfulPieces
           /\ Cardinality(Fetching' \ Fetching) = 1)]_vars

C20_Witness ==
    /\ \E i \in DOMAIN w : w[i].pc = "fetch"
    /\ successfulPieces > 0
    /\ successfulPieces + inProgress = es.RequiredCount
    /\ unusedLimits > 0

\* The scenarios' nodes by behaviour.
TamperedSlots == {i \in NonNilSlots : node[i] = "tampered"}
OfflineSlots == {i \in NonNilSlots : node[i] = "offline"}

\* C15: k = 4, n = 8, five non-nil limits, four nodes deliver their piece
\* and one fails in the network: however the workers interleave, Get returns
\* a stream over exactly k readers and no error, and failedPieces is empty.
C15_ScenarioSucceeds ==
    (Returned /\ TamperedSlots = {})
    => (/\ getRet.err = NoErr
        /\ getRet.stream # Nil
        /\ Cardinality(DOMAIN getRet.stream.readers) = es.RequiredCount
        /\ DOMAIN getRet.stream.readers \subseteq ValidSlots
        /\ successfulPieces = es.RequiredCount
        /\ getRet.failedPieces = << >>)

C15_Witness ==
    /\ Returned
    /\ TamperedSlots = {}
    /\ getRet.err = NoErr
    /\ \E i \in OfflineSlots : w[i].got = "offline"
    /\ \A i \in ValidSlots : w[i].got = "valid"

\* C16 as stated: k = 4, n = 8, five non-nil limits, three nodes deliver
\* their piece, one serves a piece that does not match its hash and one
\* fails in the network: Get returns the irreparable error with 3 pieces
\* available of 4 required, and failedPieces is exactly the tampering node.
C16_Original ==
    (Returned /\ TamperedSlots # {})
    => (/\ IsIrreparable(getRet.err)
        /\ getRet.err.piecesAvailable = es.RequiredCount - 1
        /\ getRet.err.piecesRequired = es.RequiredCount
        /\ {getRet.failedPieces[p] : p \in DOMAIN getRet.failedPieces}
              = {RemotePiece(i) : i \in TamperedSlots})

\* C16 amended: in that scenario Get returns the irreparable error with 4
\* pieces required and as many available as were downloaded before the two
\* failures left fewer than 4 within reach, at most 3; failedPieces is
\* exactly the tampering node, once.
C16_ScenarioIrreparable ==
    (Returned /\ TamperedSlots # {})
    => (/\ IsIrreparable(getRet.err)
        /\ getRet.stream = Nil
        /\ getRet.err.piecesAvailable = successfulPieces
        /\ getRet.err.piecesAvailable <= es.RequiredCount - 1
        /\ getRet.err.piecesRequired = es.RequiredCount
        /\ Len(getRet.failedPieces) = 1
        /\ \A i \in TamperedSlots : getRet.failedPieces[1] = RemotePiece(i))

C16_Witness ==
    /\ Returned
    /\ TamperedSlots # {}
    /\ IsIrreparable(getRet.err)
    /\ getRet.err.piecesAvailable < es.RequiredCount - 1
    /\ getRet.failedPieces # << >>

\* Get is past its preconditions: the counters exist.
Began == gpc \in {"loop", "wait"} \/ (Returned /\ LimitsMatchScheme /\ EnoughLimits)
\* What can still become a downloaded piece.
Reachable == successfulPieces + inProgress + unusedLimits

\* C21: successful + inProgress + unusedLimits never increases; once it is
\* below k it stays below k, no download is started from then on (a worker
\* that takes the lock leaves without downloading), and Get returns, with
\* the irreparable error.
C21_UnreachableIsFinal ==
    /\ [][Began =>
            /\ Reachable' <= Reachable
            /\ Reachable < es.RequiredCount =>
                  /\ Fetching' \subseteq Fetching
                  /\ inProgress' <= inProgress
                  /\ \A i \in DOMAIN w :
                        (w[i].pc = "lock" /\ w'[i].pc # "lock") => w'[i].pc = "signal"]_vars
    /\ (Began /\ Reachable < es.RequiredCount)
          ~> (Returned /\ IsIrreparable(getRet.err) /\ getRet.stream = Nil)

C21_Witness ==
    /\ Began
    /\ Reachable < es.RequiredCount
    /\ unusedLimits > 0
    /\ errlist # {}
    /\ \E i \in DOMAIN w : w[i].pc = "signal" /\ w[i].got = "none"

\* The workers whose download has ended and is counted.
Folded == {i \in DOMAIN w : w[i].got # "none"}

\* C23: Get returns only after every worker it launched has ended; at the
\* return inProgress is 0, nobody is in cond.Wait, and every download that
\* was started has been counted as a success or as a failure. A download
\* under way is left only by its own end, which is counted in the same step.
C23_ReturnsAfterWorkers ==
    /\ [](Returned /\ Began =>
            /\ Busy = {}
            /\ Waiting = {}
            /\ inProgress = 0
            /\ Cardinality(Folded) = successfulPieces + Cardinality(errlist))
    /\ [][\A i \in DOMAIN w :
            (i \in Fetching /\ w'[i].pc \notin {"fetch", "retry"}) =>
                /\ w'[i].pc = "signal"
                /\ w'[i].got # "none"
                /\ inProgress' = inProgress - 1
                /\ \/ successfulPieces' = successfulPieces + 1 /\ errlist' = errlist
                   \/ successfulPieces' = successfulPieces /\ errlist' # errlist]_vars

C23_Witness ==
    /\ Returned
    /\ Began
    /\ ctxErr
    /\ successfulPieces > 0
    /\ \E i \in DOMAIN w : w[i].got = "cancelled"

\* C25: a nil slot of limits never gets a worker, a reader, an entry of
\* failedPieces or an entry of the error list; the loop's step over it
\* changes none of the counters; and unusedLimits starts as the number of
\* non-nil slots.
C25_NilSlotsSkipped ==
    /\ [](\A i \in DOMAIN limits : limits[i] = Nil =>
              /\ w[i] = Idle
              /\ i \notin DOMAIN pieceReaders
              /\ \A p \in DOMAIN failedPieces : failedPieces[p].PieceNum # i)
    /\ []({e.node : e \in errlist} \subseteq
              {limits[j].Limit.StorageNodeId : j \in NonNilSlots})
    /\ [][/\ (gpc = "start" /\ gpc' = "loop") => unusedLimits' = Cardinality(NonNilSlots)
          /\ (gpc = "loop" /\ limits[idx] = Nil /\ idx' # idx) =>
                UNCHANGED <<successfulPieces, inProgress, unusedLimits, w,
                            pieceReaders, failedPieces, errlist>>]_vars

C25_Witness ==
    /\ Returned
    /\ \E i \in DOMAIN limits : limits[i] = Nil /\ i < Len(limits)
    /\ errlist # {}
    /\ unusedLimits = 0
    /\ IsIrreparable(getRet.err)

\* C26: successful is at every moment the number of entries of pieceReaders,
\* each under the index of the limit it was downloaded with; a step that
\* raises successful raises it by one, from below k, for one worker whose
\* download just ended and whose slot had no entry, so no limit counts twice
\* and one worker alone brings successful to k.
C26_OneReaderPerSuccess ==
    /\ [](/\ successfulPieces = Cardinality(DOMAIN pieceReaders)
          /\ \A i \in DOMAIN pieceReaders :
                /\ w[i].got \in VerifiableKinds
                /\ pieceReaders[i] = downloadAndVerifyPiece(Response(w[i].got, i)).reader)
    /\ [][successfulPieces' # successfulPieces =>
            /\ successfulPieces' = successfulPieces + 1
            /\ successfulPieces < es.RequiredCount
            /\ \E i \in Fetching :
                  /\ w'[i].pc = "signal"
                  /\ i \notin DOMAIN pieceReaders
                  /\ DOMAIN pieceReaders' = DOMAIN pieceReaders \cup {i}
                  /\ \A j \in DOMAIN w \ {i} : w'[j] = w[j]]_vars

C26_Witness ==
    /\ successfulPieces = es.RequiredCount
    /\ es.RequiredCount > 1
    /\ errlist # {}
    /\ \E i \in DOMAIN pieceReaders : w[i].pc = "signal"

\* C27: once the counters exist, successful + inProgress + unusedLimits plus
\* the number of downloads that ended in failure is the number of non-nil
\* limits, and none of the four is negative; a worker that leaves without
\* downloading changes none of them.
C27_LimitsConserved ==
    /\ [](Began =>
            /\ successfulPieces + inProgress + unusedLimits + Cardinality(errlist)
                  = Cardinality(NonNilSlots)
            /\ successfulPieces >= 0
            /\ inProgress >= 0
            /\ unusedLimits >= 0)
    /\ [][\A i \in DOMAIN w :
            (w[i].pc = "lock" /\ w'[i].pc = "signal") =>
                UNCHANGED <<successfulPieces, inProgress, unusedLimits, errlist>>]_vars

C27_Witness ==
    /\ Began
    /\ successfulPieces > 0
    /\ inProgress > 0
    /\ errlist # {}
    /\ \E i \in DOMAIN w : w[i].pc = "retry"

\* What the call that worker i kept the result of returned.
Kept(i) == downloadAndVerifyPiece(Response(w'[i].got, i))
Cached(i) == cachedIPsAndPorts[i] = "differs"

\* C28: a worker calls downloadAndVerifyPiece a second time exactly when the
\* map holds a differing address for its node and the first call failed in
\* the piecestore class; it never calls a third time; both calls fall under
\* one unit of inProgress; and what is counted is the result of the last
\* call, which went to the limit's own address if it was the second.
C28_RetryOnce ==
    /\ [](/\ inProgress = Cardinality(Fetching)
          /\ \A i \in DOMAIN w :
                /\ w[i].attempts <= 2
                /\ w[i].pc = "fetch" => w[i].attempts = 1
                /\ w[i].pc = "retry" => w[i].attempts = 2)
    /\ [][\A i \in DOMAIN w :
            /\ (w[i].pc = "fetch" /\ w'[i].pc = "retry") =>
                  /\ Cached(i)
                  /\ Has(PiecestoreError, w'[i].first)
                  /\ inProgress' = inProgress
                  /\ UNCHANGED <<successfulPieces, pieceReaders, errlist, failedPieces>>
            /\ (w[i].pc = "fetch" /\ w'[i].pc \notin {"fetch", "retry"}) =>
                  ~(Cached(i) /\ Has(PiecestoreError, Kept(i).err))
            /\ w[i].pc = "retry" => w'[i].pc \in {"retry", "signal"}
            /\ (w[i].pc = "retry" /\ w'[i].pc = "signal") => w'[i].got # "stale"
            /\ (i \in Fetching /\ w'[i].pc = "signal") =>
                  /\ inProgress' = inProgress - 1
                  /\ IF Kept(i).err = NoErr
                     THEN /\ pieceReaders' = (i :> Kept(i).reader) @@ pieceReaders
                          /\ errlist' = errlist
                     ELSE /\ pieceReaders' = pieceReaders
                          /\ errlist' = errlist \cup
                                {[node |-> limits[i].Limit.StorageNodeId,
                                  err |-> Kept(i).err]}]_vars

C28_Witness ==
    \E i, j \in DOMAIN w :
        /\ w[i].pc = "retry"
        /\ Cached(j)
        /\ w[j].got = "tampered"
        /\ successfulPieces > 0

\* Worker i's closure ends: the deferred calls of ec.go:99-100 are done.
Ends(i) == w[i].pc = "signal" /\ w'[i].pc = "done"
\* The waiters that a step wakes.
Woken == {j \in Waiting : w'[j].pc = "lock"}

\* C22 as stated: when a download has ended and its worker has updated the
\* counters, every worker blocked in cond.Wait is woken.
C22_Original ==
    [][\A i \in DOMAIN w : (Ends(i) /\ w[i].got # "none") => Woken = Waiting]_vars

\* C22: the worker of a download that has ended wakes one waiting worker if
\* there is one, and no more (cond.Signal); the update of the counters itself
\* wakes nobody; every waiter is woken only by a worker that leaves at one of
\* the first two tests (cond.Broadcast).
C22_SignalWakesOne ==
    [][\A i \in DOMAIN w :
          /\ Ends(i) => Cardinality(Woken) = (IF Waiting = {} THEN 0 ELSE 1)
          /\ (w[i].pc \in {"fetch", "retry"} /\ w'[i].pc = "signal") => Woken = {}
          /\ (w[i].pc = "lock" /\ w'[i].pc = "signal") => Woken = Waiting]_vars

C22_Witness ==
    /\ Cardinality(Waiting) >= 2
    /\ \E i \in DOMAIN w : w[i].pc = "signal" /\ w[i].got # "none"

RepairReturned == rpc = "done"
\* The preconditions and the encoding step have passed.
UploadsStarted == timer # "none"
NonNilPutSlots == {i \in DOMAIN repairLimits : repairLimits[i] # Nil}
Recorded == {i \in DOMAIN successfulNodes : successfulNodes[i] # Nil}

\* C8 as stated: once the preconditions and the encoding have passed, Repair
\* returns an error only if no upload succeeded.
C8_Original ==
    (RepairReturned /\ UploadsStarted)
    => (repairRet.err # NoErr => successfulCount = 0)

\* C8 amended: once the preconditions and the encoding have passed, Repair
\* returns an error exactly if no upload succeeded or the caller's context is
\* done when Repair returns; the timer and the threshold alone never make it
\* fail.
C8_ErrorOnlyIfNoneOrCancelled ==
    (RepairReturned /\ UploadsStarted)
    => (/\ successfulCount = Cardinality(Recorded)
        /\ repairRet.err # NoErr <=> (Recorded = {} \/ repairCtx # "live"))

C8_Witness ==
    /\ RepairReturned
    /\ timer = "fired"
    /\ repairCtx = "live"
    /\ cancellationCount > 0
    /\ successfulCount > 0
    /\ successfulCount < successfulNeeded
    /\ repairRet.err = NoErr

\* C9: if no upload reports success (every non-nil slot ends as a failure
\* or a cancellation), Repair returns an error and both result slices are
\* nil.
C9_NoSuccessIsError ==
    (/\ RepairReturned
     /\ UploadsStarted
     /\ failureCount + cancellationCount = Cardinality(NonNilPutSlots))
    => (/\ repairRet.err # NoErr
        /\ repairRet.successfulNodes = Nil
        /\ repairRet.successfulHashes = Nil)

C9_Witness ==
    /\ RepairReturned
    /\ failureCount > 0
    /\ cancellationCount > 0
    /\ failureCount + cancellationCount = Cardinality(NonNilPutSlots)
    /\ Cardinality(NonNilPutSlots) < Len(repairLimits)

\* Two non-nil slots carry the same node id.
DuplicateNode ==
    \E i, j \in NonNilPutSlots :
        i # j /\ repairLimits[i].Limit.StorageNodeId = repairLimits[j].Limit.StorageNodeId

\* C10: whenever two non-nil slots carry the same node id, whatever its
\* value, or len(limits) differs from the total count, Repair returns an
\* error and has neither encoded the data nor started an upload goroutine
\* nor dialled.
C10_DuplicatesRejected ==
    (DuplicateNode \/ Len(repairLimits) # rs.TotalCount)
    => (/\ ~encoded
        /\ \A i \in DOMAIN task : task[i] = "none"
        /\ infos = << >>
        /\ RepairReturned => repairRet.err # NoErr)

\* Slots whose upload goroutine has not yet sent its result.
InFlight == {i \in DOMAIN task : task[i] = "run"}
\* Slots whose upload goroutine has sent its result.
Reported == {i \in DOMAIN task : task[i] \in {"ok", "err"}}

\* C11 as stated: once the success count has reached successfulNeeded with
\* the timer not fired, no upload still in flight reports a success (which
\* the draining loop would record in the success set).
C11_Original ==
    [][\A i \in DOMAIN task :
          (/\ successfulCount >= successfulNeeded
           /\ timer' # "fired"
           /\ repairLimits[i] # Nil
           /\ task[i] = "run")
          => task'[i] # "ok"]_vars

\* C11 amended: the step of the draining loop that brings the success count
\* to successfulNeeded cancels the upload context, so the count is never at
\* the threshold with the context live; an upload in flight at that moment
\* that ends in an error is not in the success set, one that completes all
\* the same is: when Repair returns, the success set is exactly the non-nil
\* slots whose upload reported no error.
C11_ThresholdCancels ==
    /\ successfulCount >= successfulNeeded => psCtx # "live"
    /\ (RepairReturned /\ UploadsStarted)
       => (/\ Recorded = {i \in NonNilPutSlots : task[i] = "ok"}
           /\ \A i \in NonNilPutSlots : task[i] = "err" => successfulHashes[i] = Nil)

C11_Witness ==
    /\ RepairReturned
    /\ timer = "stopped"
    /\ repairCtx = "live"
    /\ successfulCount >= successfulNeeded
    /\ cancellationCount > 0
    /\ \E i \in NonNilPutSlots : task[i] = "err" /\ successfulNodes[i] = Nil

\* C12: once the timer has fired the upload context is done in every case:
\* the timer's function cancels it unless the caller's context reports
\* context.Canceled, and then the upload context, derived from the caller's,
\* is done already.
C12_TimerCancels ==
    /\ timer = "fired" => psCtx # "live"
    /\ repairCtx # "live" => psCtx # "live"

C12_Witness ==
    /\ timer = "fired"
    /\ repairCtx = "live"
    /\ psCtx = "canceled"
    /\ successfulCount < successfulNeeded
    /\ InFlight # {}

\* C13: one goroutine per slot, nil slots included; each sends one result;
\* the results waiting in the channel never exceed its capacity n, so a
\* sender always finds a free place; Repair returns after n results, with
\* every goroutine over and the channel empty.
C13_AllTasksReport ==
    UploadsStarted
    => (/\ DOMAIN task = DOMAIN repairLimits
        /\ \A i \in DOMAIN task : task[i] \in {"run", "ok", "err"}
        /\ Cardinality(Reported) = received + Len(infos)
        /\ {infos[p].i : p \in DOMAIN infos} \subseteq Reported
        /\ Len(infos) <= ChannelCap
        /\ InFlight # {} => Len(infos) < ChannelCap
        /\ RepairReturned => (/\ received = Len(repairLimits)
                              /\ InFlight = {}
                              /\ infos = << >>))

C13_Witness ==
    /\ RepairReturned
    /\ UploadsStarted
    /\ cancellationCount > 0
    /\ Cardinality(NonNilPutSlots) < Len(repairLimits)
    /\ Reported = DOMAIN repairLimits

\* The draining loop takes a result off the channel in this step.
Consumes == received' = received + 1
\* The result the goroutine of slot i sends in this step.
Sent(i) == infos'[Len(infos')]
Sends(i) == task[i] = "run" /\ task'[i] # "run"

\* C29: the goroutine of a nil slot sends a result without a hash, carrying
\* at most the error of closing its reader; taking that result off the
\* channel changes no count, no entry of the two result slices and not the
\* upload context; and the slices have no entry for a nil slot.
C29_NilSlotIgnored ==
    /\ [](\A i \in DOMAIN successfulNodes :
              repairLimits[i] = Nil => successfulNodes[i] = Nil /\ successfulHashes[i] = Nil)
    /\ [][/\ \A i \in DOMAIN task :
                (Sends(i) /\ repairLimits[i] = Nil) =>
                    /\ Sent(i).i = i
                    /\ Sent(i).hash = Nil
                    /\ ~Has(PiecestoreError, Sent(i).err)
                    /\ psCtx' = psCtx
          /\ (Consumes /\ repairLimits[Head(infos).i] = Nil) =>
                UNCHANGED <<successfulCount, failureCount, cancellationCount,
                            successfulNodes, successfulHashes, psCtx>>]_vars

C29_Witness ==
    /\ rpc = "drain"
    /\ Drained
    /\ \E i \in DOMAIN task : repairLimits[i] = Nil /\ task[i] = "err"
    /\ failureCount = 0
    /\ cancellationCount = 0
    /\ successfulCount = successfulNeeded - 1
    /\ psCtx = "live"

Counted ==
    {i \in NonNilPutSlots \cap Reported : \A p \in DOMAIN infos : infos[p].i # i}
AllDrained == rpc = "drain" /\ Drained

\* C31: the three counts together count the non-nil slots whose result has
\* been taken off the channel, the successes apart from the rest; taking a
\* non-nil slot's result raises exactly one count by one; no slot sends
\* twice; and after the n results the counts add up to the number of non-nil
\* limits.
C31_CountedOnce ==
    /\ [](UploadsStarted =>
            /\ successfulCount + failureCount + cancellationCount = Cardinality(Counted)
            /\ successfulCount = Cardinality({i \in Counted : task[i] = "ok"})
            /\ \A p, q \in DOMAIN infos : infos[p].i = infos[q].i => p = q
            /\ Drained =>
                  successfulCount + failureCount + cancellationCount
                      = Cardinality(NonNilPutSlots))
    /\ [][(Consumes /\ repairLimits[Head(infos).i] # Nil) =>
            /\ successfulCount' + failureCount' + cancellationCount'
                  = successfulCount + failureCount + cancellationCount + 1
            /\ successfulCount' >= successfulCount
            /\ failureCount' >= failureCount
            /\ cancellationCount' >= cancellationCount]_vars

C31_Witness ==
    /\ AllDrained
    /\ successfulCount > 0
    /\ failureCount > 0
    /\ cancellationCount > 0

\* C32: the two result slices have length n from the moment they are made;
\* entry i of the one is set exactly when entry i of the other is, and then
\* limits[i] is non-nil, task i reported no error, the node entry carries the
\* id and the address of limits[i] and the hash entry the hash task i got;
\* the set entries are successfulCount many; and what Repair returns once an
\* upload succeeded are these two slices.
C32_ResultSlices ==
    UploadsStarted =>
        /\ Len(successfulNodes) = rs.TotalCount
        /\ Len(successfulHashes) = rs.TotalCount
        /\ \A i \in DOMAIN successfulNodes :
              /\ successfulNodes[i] # Nil <=> successfulHashes[i] # Nil
              /\ successfulNodes[i] # Nil =>
                    /\ repairLimits[i] # Nil
                    /\ task[i] = "ok"
                    /\ successfulNodes[i].Id = repairLimits[i].Limit.StorageNodeId
                    /\ successfulNodes[i].Address = repairLimits[i].Address
                    /\ successfulHashes[i] = UploadedHash(i)
        /\ Cardinality(Recorded) = successfulCount
        /\ (RepairReturned /\ successfulCount > 0) =>
              /\ repairRet.successfulNodes = successfulNodes
              /\ repairRet.successfulHashes = successfulHashes

C32_Witness ==
    /\ RepairReturned
    /\ Cardinality(Recorded) = 2
    /\ \E i \in NonNilPutSlots : task[i] = "err"
    /\ Len(repairRet.successfulNodes) = rs.TotalCount

\* C33: while Repair drains, the upload context is done only if the timer
\* has fired, the success count has reached successfulNeeded, or the
\* caller's context is done; and an upload reports an error of the cancelled
\* kind only with the upload context done.
C33_ThreeCancellers ==
    /\ []((rpc = "drain" /\ psCtx # "live") =>
            \/ timer = "fired"
            \/ successfulCount >= successfulNeeded
            \/ repairCtx # "live")
    /\ [][\A i \in DOMAIN task :
            (Sends(i) /\ IsCanceled(Sent(i).err)) => psCtx # "live"]_vars

C33_Witness ==
    /\ rpc = "drain"
    /\ psCtx = "canceled"
    /\ timer = "armed"
    /\ repairCtx = "live"
    /\ successfulCount = successfulNeeded
    /\ successfulNeeded > 1
    /\ InFlight # {}

RepairCancelled == Err(RepairerError, "repair cancelled")

\* C34: when Repair returns after the draining loop, its error is "repair
\* cancelled" exactly if the caller's context is done, whatever the uploads
\* did; with the caller's context live, neither the timer nor the threshold
\* makes it so.
C34_CallerCancelWins ==
    (RepairReturned /\ UploadsStarted) =>
        (repairCtx # "live" <=> repairRet.err = RepairCancelled)

C34_Witness ==
    /\ RepairReturned
    /\ repairCtx = "deadline"
    /\ successfulCount >= successfulNeeded
    /\ repairRet.err = RepairCancelled
    /\ repairRet.successfulNodes # Nil

\* C35: once the n results are drained, the recorded slots are exactly the
\* non-nil slots whose task reported success, whenever and in whichever
\* order the results were taken, the threshold and the timer notwithstanding.
C35_EverySuccessRecorded ==
    (UploadsStarted /\ Drained) =>
        Recorded = {i \in NonNilPutSlots : task[i] = "ok"}

C35_Witness ==
    /\ AllDrained
    /\ timer = "fired"
    /\ successfulCount > successfulNeeded

\* C36: with every goroutine scheduled in the end, Repair returns; while it
\* drains and a result is missing, a result is in the channel or a task is
\* still to send one; and the upload context does not stay live.
C36_RepairReturns ==
    /\ <>[]RepairReturned
    /\ []((rpc = "drain" /\ ~Drained) => (infos # << >> \/ InFlight # {}))
    /\ (rpc = "drain") ~> (psCtx # "live")

C36_Witness ==
    /\ rpc = "drain"
    /\ ~Drained
    /\ infos = << >>
    /\ Cardinality(InFlight) = 1
    /\ timer = "fired"
    /\ psCtx = "canceled"
    /\ successfulCount = 0

\* ------------------------------------------------------------------ claims about the verifier

\* The conditions of acceptance, in the order verifyPieceHash is to test them.
ArgumentsPresent == vLimit # Nil /\ vHash # Nil /\ vExpected # << >>
PieceIdMatches == vLimit.PieceId = vHash.PieceId
HashMatches == vHash.Hash = vExpected
SignatureVerifies ==
    /\ vHash.Signature.signer = vLimit.UplinkPublicKey
    /\ vHash.Signature.PieceId = vHash.PieceId
    /\ vHash.Signature.Hash = vHash.Hash
ShouldAccept == ArgumentsPresent /\ PieceIdMatches /\ HashMatches /\ SignatureVerifies
FirstFailure ==
    IF ~ArgumentsPresent THEN "invalid arguments"
    ELSE IF ~PieceIdMatches THEN "piece id changed"
    ELSE IF ~HashMatches THEN "hash from storage node does not match calculated hash"
    ELSE "invalid piece hash signature"

\* C14: verifyPieceHash accepts exactly when limit and hash are present, the
\* computed hash is not empty, the piece ids agree, the hash equals the
\* computed one and the signature verifies against the key in the limit;
\* otherwise its error names the first of these that fails; calls on the
\* same arguments give the same result.
C14_VerifyPieceHashPure ==
    vpc = "verify"
    => \A p \in DOMAIN vResults :
          /\ vResults[p] = NoErr <=> ShouldAccept
          /\ ~ShouldAccept => (/\ vResults[p].msg = FirstFailure
                               /\ vResults[p].classes = {RepairerError})
          /\ vResults[p] = vResults[1]

C14_Witness ==
    /\ vpc = "verify"
    /\ Len(vResults) = MaxCalls
    /\ ShouldAccept
    /\ vResults[MaxCalls] = NoErr

\* The checks of downloadAndVerifyPiece on what the node delivered, in order.
SizeRight == dResp.sizeOK
HashSupplied == dResp.hash # Nil
LimitSupplied == dResp.limit # Nil
LimitSignedBySatellite ==
    /\ dResp.limit.SatelliteSignature.signer = SatelliteSignee
    /\ dResp.limit.SatelliteSignature.PieceId = dResp.limit.PieceId
    /\ dResp.limit.SatelliteSignature.StorageNodeId = dResp.limit.StorageNodeId
PieceHashVerifies == verifyPieceHash(dResp.limit, dResp.hash, HashOf(dResp.data)) = NoErr
AllChecksPass ==
    SizeRight /\ HashSupplied /\ LimitSupplied /\ LimitSignedBySatellite /\ PieceHashVerifies
FirstFailingCheck ==
    IF ~SizeRight THEN "didn't download the correct amount of data"
    ELSE IF ~HashSupplied THEN "hash was not sent from storagenode"
    ELSE IF ~LimitSupplied THEN "original order limit was not sent from storagenode"
    ELSE IF ~LimitSignedBySatellite THEN "invalid order limit signature"
    ELSE verifyPieceHash(dResp.limit, dResp.hash, HashOf(dResp.data)).msg

\* C18: downloadAndVerifyPiece returns a reader only if the size is right,
\* a hash and a limit were supplied, the limit is signed by the satellite
\* and the piece hash verifies; when one of these fails no reader is
\* returned and the error is that of the first that fails, in this order;
\* only a failed piece-hash verification is in the class of such failures.
C18_ChecksInOrder ==
    (vpc = "download" /\ dResp.transport = "ok")
    => \A p \in DOMAIN vResults :
          /\ vResults[p].reader # Nil => AllChecksPass
          /\ AllChecksPass => vResults[p].reader = [data |-> dResp.data]
          /\ ~AllChecksPass =>
                /\ vResults[p].reader = Nil
                /\ vResults[p].err.msg = FirstFailingCheck
                /\ Has(RepairerError, vResults[p].err)
                /\ Has(ErrPieceHashVerifyFailed, vResults[p].err)
                      <=> (SizeRight /\ HashSupplied /\ LimitSupplied
                           /\ LimitSignedBySatellite)

C18_Witness ==
    /\ vpc = "download"
    /\ dResp.transport = "ok"
    /\ Len(vResults) = MaxCalls
    /\ AllChecksPass
    /\ vResults[1].reader # Nil
    /\ vResults[1].err = NoErr

\* ------------------------------------------------------------------ claims about CreatePutRepairOrderLimits

OrdersSucceeded == opc = "done" /\ ordersRet.err = NoErr
\* Piece numbers, one-based, that got a put limit.
Assigned == {i \in DOMAIN putLimits : putLimits[i] # Nil}
\* Piece numbers, one-based, without a get limit.
FreeSlots == {i \in DOMAIN getOrderLimits : getOrderLimits[i] = Nil}

\* C37: the slice of put limits has the length of the total piece count and
\* a put limit only where there is no get limit; the nodes take the free
\* piece numbers from the lowest on, in the order of newNodes, each node one
\* piece number and each piece number one node; the limit is signed for its
\* own piece number; and this slice is what a successful call returns.
C37_PutLimitsFillGaps ==
    /\ opc \in {"loop", "save"} \/ OrdersSucceeded =>
          /\ Len(putLimits) = redundancy.TotalCount
          /\ Assigned \subseteq FreeSlots
          /\ \A i \in Assigned : \A f \in FreeSlots : f < i => f \in Assigned
          /\ \A i \in Assigned : putLimits[i].Limit.PieceNum = i - 1
          /\ \A i, j \in Assigned :
                i < j <=> putLimits[i].Limit.StorageNodeId < putLimits[j].Limit.StorageNodeId
          /\ {putLimits[i].Limit.StorageNodeId : i \in Assigned}
                = {newNodes[j] : j \in 1..Cardinality(Assigned)}
    /\ OrdersSucceeded => ordersRet.limits = putLimits

C37_Witness ==
    /\ OrdersSucceeded
    /\ \E i, j, k \in DOMAIN putLimits :
          /\ i < j /\ j < k
          /\ putLimits[i] # Nil
          /\ getOrderLimits[j] # Nil
          /\ putLimits[k] # Nil
    /\ Cardinality(Assigned) < Len(newNodes)

Max0(x) == IF x > 0 THEN x ELSE 0

\* C38: a successful call creates at most
\* max(0, totalPiecesAfterRepair - numCurrentPieces) put limits, and none
\* when the segment has totalPiecesAfterRepair current pieces or more,
\* however many new nodes are given.
C38_AtMostMissingPieces ==
    OrdersSucceeded =>
        Cardinality(Assigned) <= Max0(totalPiecesAfterRepair - numCurrentPieces)

\* ------------------------------------------------------------------ claims about RecordAudits

\* The entries still to record, by category.
Left ==
    Records("successes", successes, {}) \cup Records("fails", fails, {})
    \cup Records("unknowns", unknowns, {}) \cup Records("offlines", offlines, {})
    \cup Records("pending", [i \in DOMAIN pendingAudits |-> pendingAudits[i].NodeID], {})

====
